---- MODULE Spec2Model ----
(***************************************************************************)
(* The self-update subsystem of tasklog: the version model                 *)
(* (internal/updater/version.go), the release source                       *)
(* (internal/github/client.go) and the upgrade orchestrator                *)
(* (internal/updater/updater.go, cmd/upgrade.go).                          *)
(*                                                                         *)
(* Go strings are sequences of one-character strings, so that prefix       *)
(* stripping, substring search, splitting and parsing are computed as the  *)
(* code computes them.                                                     *)
(***************************************************************************)
EXTENDS Integers, Sequences, FiniteSets, TLC

(***************************************************************************)
(* Bounds of the model                                                     *)
(***************************************************************************)
\* the clock runs over 0..MaxTime
MaxTime == 5
\* the Updater's checkInterval, in clock ticks (the configured duration)
CheckInterval == 2

(***************************************************************************)
(* strings                                                                 *)
(***************************************************************************)
Digits == <<"0", "1", "2", "3", "4", "5", "6", "7", "8", "9">>

Alphabet ==
  <<"a", "b", "c", "d", "e", "f", "g", "h", "i", "j", "k", "l", "m", "n", "o",
    "p", "q", "r", "s", "t", "u", "v", "w", "x", "y", "z">>

IsLetter(c) == \E i \in 1..Len(Alphabet) : Alphabet[i] = c

IsDigit(c) == \E i \in 1..10 : Digits[i] = c

DigitVal(c) == (CHOOSE i \in 1..10 : Digits[i] = c) - 1

\* strings.HasPrefix
HasPrefix(s, p) == Len(s) >= Len(p) /\ \A k \in 1..Len(p) : s[k] = p[k]

\* strings.TrimPrefix
TrimPrefix(s, p) == IF HasPrefix(s, p) THEN SubSeq(s, Len(p) + 1, Len(s)) ELSE s

\* strings.Contains
Contains(s, sub) ==
  \E i \in 1..(Len(s) - Len(sub) + 1) : \A k \in 1..Len(sub) : s[i + k - 1] = sub[k]

\* strings.Index for a one-character separator, searching from position i:
\* 0 when absent
RECURSIVE IndexFrom(_, _, _)
IndexFrom(s, c, i) ==
  IF i > Len(s) THEN 0
  ELSE IF s[i] = c THEN i
  ELSE IndexFrom(s, c, i + 1)

IndexOf(s, c) == IndexFrom(s, c, 1)

\* strings.Split for a one-character separator
RECURSIVE Split(_, _)
Split(s, c) ==
  LET i == IndexOf(s, c)
  IN IF i = 0 THEN <<s>>
     ELSE <<SubSeq(s, 1, i - 1)>> \o Split(SubSeq(s, i + 1, Len(s)), c)

\* strings.Join with a one-character separator
RECURSIVE Join(_, _)
Join(parts, c) ==
  IF Len(parts) = 0 THEN <<>>
  ELSE IF Len(parts) = 1 THEN parts[1]
  ELSE parts[1] \o <<c>> \o Join(Tail(parts), c)

\* strconv.ParseInt on a non-empty string of decimal digits
RECURSIVE ParseInt(_)
ParseInt(s) ==
  IF Len(s) = 0 THEN 0
  ELSE 10 * ParseInt(SubSeq(s, 1, Len(s) - 1)) + DigitVal(s[Len(s)])

\* strconv.FormatInt(n, 10)
RECURSIVE FormatInt(_)
FormatInt(n) ==
  IF n < 10 THEN <<Digits[n + 1]>>
  ELSE FormatInt(n \div 10) \o <<Digits[(n % 10) + 1]>>

AllDigits(s) == Len(s) > 0 /\ \A i \in 1..Len(s) : IsDigit(s[i])

\* the byte order of Go's string comparison, on the characters of the model:
\* '+' < '-' < '.' < digits < '_' < letters < '~'
CharRank(c) ==
  IF c = "+" THEN 0
  ELSE IF c = "-" THEN 1
  ELSE IF c = "." THEN 2
  ELSE IF IsDigit(c) THEN 3 + DigitVal(c)
  ELSE IF c = "_" THEN 13
  ELSE IF IsLetter(c) THEN 13 + (CHOOSE i \in 1..Len(Alphabet) : Alphabet[i] = c)
  ELSE 40

\* a > b for Go strings
RECURSIVE StrGreater(_, _)
StrGreater(a, b) ==
  IF Len(a) = 0 THEN FALSE
  ELSE IF Len(b) = 0 THEN TRUE
  ELSE IF a[1] # b[1] THEN CharRank(a[1]) > CharRank(b[1])
  ELSE StrGreater(Tail(a), Tail(b))

(***************************************************************************)
(* Version model: internal/updater/version.go over hashicorp/go-version    *)
(***************************************************************************)
\* a character of a pre-release or build-metadata identifier: [0-9A-Za-z\-~]
IsIdChar(c) == IsDigit(c) \/ IsLetter(c) \/ c = "-" \/ c = "~"

\* non-empty dot-separated identifiers: [0-9A-Za-z\-~]+(\.[0-9A-Za-z\-~]+)*
ValidParts(s) ==
  /\ Len(s) > 0
  /\ s[1] # "." /\ s[Len(s)] # "."
  /\ \A i \in 1..Len(s) :
       \/ IsIdChar(s[i])
       \/ s[i] = "." /\ s[i + 1] # "."

\* the length of the numeric core [0-9]+(\.[0-9]+)* at the head of s
RECURSIVE CoreLen(_, _)
CoreLen(s, n) ==
  IF n < Len(s) /\ IsDigit(s[n + 1]) THEN CoreLen(s, n + 1)
  ELSE IF n > 0 /\ n + 1 < Len(s) /\ s[n + 1] = "." /\ IsDigit(s[n + 2])
         /\ IsDigit(s[n])
    THEN CoreLen(s, n + 2)
  ELSE n

\* the pre-release group of the version regexp on the text between the core
\* and the build metadata: "-" and digit-led identifiers, or an optional "-"
\* and identifiers led by a letter, "-" or "~"
PreMatches(rest) ==
  \/ Len(rest) = 0
  \/ rest[1] = "-" /\ ValidParts(Tail(rest))
  \/ ~IsDigit(rest[1]) /\ ValidParts(rest)

PreOf(rest) ==
  IF Len(rest) = 0 THEN <<>>
  ELSE IF rest[1] = "-" /\ ValidParts(Tail(rest)) THEN Tail(rest)
  ELSE rest

Malformed == [ok |-> FALSE, segments |-> <<>>, pre |-> <<>>, metadata |-> <<>>]

\* pad the segments to MAJOR.MINOR.PATCH
RECURSIVE PadSegments(_)
PadSegments(segs) == IF Len(segs) >= 3 THEN segs ELSE PadSegments(Append(segs, 0))

\* version.NewVersion of hashicorp/go-version: the version regexp
\* ^v?core(pre)?(\+metadata)?$ and the segment parsing
NewVersion(v) ==
  LET s    == TrimPrefix(v, <<"v">>)
      n    == CoreLen(s, 0)
      tl   == SubSeq(s, n + 1, Len(s))
      plus == IndexOf(tl, "+")
      rest == IF plus = 0 THEN tl ELSE SubSeq(tl, 1, plus - 1)
      meta == IF plus = 0 THEN <<>> ELSE SubSeq(tl, plus + 1, Len(tl))
      core == Split(SubSeq(s, 1, n), ".")
  IN IF n = 0 \/ ~PreMatches(rest) \/ (plus # 0 /\ ~ValidParts(meta))
     THEN Malformed
     ELSE [ok       |-> TRUE,
           segments |-> PadSegments([i \in 1..Len(core) |-> ParseInt(core[i])]),
           pre      |-> PreOf(rest),
           metadata |-> meta]

DevVersion == <<"0", ".", "0", ".", "0", "-", "d", "e", "v">>

\* ParseVersion
ParseVersion(v) ==
  LET t == TrimPrefix(v, <<"v">>)
  IN IF t = <<"d", "e", "v">> \/ t = <<>> THEN NewVersion(DevVersion)
     ELSE NewVersion(t)

\* Version.String
String(ver) ==
  Join([i \in 1..Len(ver.segments) |-> FormatInt(ver.segments[i])], ".")
    \o (IF ver.pre # <<>> THEN <<"-">> \o ver.pre ELSE <<>>)
    \o (IF ver.metadata # <<>> THEN <<"+">> \o ver.metadata ELSE <<>>)

\* Version.Prerelease
Prerelease(ver) == ver.pre

\* comparePart of go-version: -1, 0 or 1
ComparePart(a, b) ==
  IF a = b THEN 0
  ELSE IF a = <<>> THEN (IF AllDigits(b) THEN -1 ELSE 1)
  ELSE IF b = <<>> THEN (IF AllDigits(a) THEN 1 ELSE -1)
  ELSE IF AllDigits(a) /\ ~AllDigits(b) THEN -1
  ELSE IF ~AllDigits(a) /\ AllDigits(b) THEN 1
  ELSE IF ~AllDigits(a) /\ ~AllDigits(b) /\ StrGreater(a, b) THEN 1
  ELSE IF (IF AllDigits(a) THEN ParseInt(a) ELSE 0)
            > (IF AllDigits(b) THEN ParseInt(b) ELSE 0) THEN 1
  ELSE -1

PartAt(parts, i) == IF i <= Len(parts) THEN parts[i] ELSE <<>>

\* comparePrereleases of go-version: the first differing part decides
RECURSIVE ComparePrereleasesFrom(_, _, _)
ComparePrereleasesFrom(pa, pb, i) ==
  IF i > Len(pa) /\ i > Len(pb) THEN 0
  ELSE IF ComparePart(PartAt(pa, i), PartAt(pb, i)) # 0
    THEN ComparePart(PartAt(pa, i), PartAt(pb, i))
  ELSE ComparePrereleasesFrom(pa, pb, i + 1)

ComparePrereleases(a, b) ==
  IF a = b THEN 0 ELSE ComparePrereleasesFrom(Split(a, "."), Split(b, "."), 1)

AllZeroFrom(segs, i) == \A k \in i..Len(segs) : segs[k] = 0

\* the segment loop of Version.Compare
RECURSIVE CompareSegmentsFrom(_, _, _)
CompareSegmentsFrom(sa, sb, i) ==
  IF i > Len(sa) /\ i > Len(sb) THEN 0
  ELSE IF i > Len(sa) THEN (IF AllZeroFrom(sb, i) THEN 0 ELSE -1)
  ELSE IF i > Len(sb) THEN (IF AllZeroFrom(sa, i) THEN 0 ELSE 1)
  ELSE IF sa[i] = sb[i] THEN CompareSegmentsFrom(sa, sb, i + 1)
  ELSE IF sa[i] < sb[i] THEN -1
  ELSE 1

\* a comparison that stops at the segments
Compare_segmentsOnly(a, b) ==
  IF String(a) = String(b) THEN 0
  ELSE CompareSegmentsFrom(a.segments, b.segments, 1)

\* Version.Compare of go-version
Compare(a, b) ==
  IF String(a) = String(b) THEN 0
  ELSE IF a.segments = b.segments
    THEN IF a.pre = <<>> /\ b.pre = <<>> THEN 0
         ELSE IF a.pre = <<>> THEN 1
         ELSE IF b.pre = <<>> THEN -1
         ELSE ComparePrereleases(a.pre, b.pre)
  ELSE CompareSegmentsFrom(a.segments, b.segments, 1)

\* Version.IsNewerThan
IsNewerThan(a, b) == Compare(a, b) > 0

(***************************************************************************)
(* Release source: internal/github/client.go                               *)
(***************************************************************************)
StatusOK == 200

\* matchesChannel
matchesChannel(tagName, channel) ==
  LET t == IF Len(tagName) > 0 /\ tagName[1] = "v" THEN Tail(tagName) ELSE tagName
  IN Contains(t, <<"-">> \o channel)

NoRelease ==
  [TagName |-> <<>>, Body |-> <<>>, Prerelease |-> FALSE, Draft |-> FALSE,
   Assets |-> <<>>]

\* what the release-hosting service answers to GET .../releases/latest:
\* the newest published release that is neither a draft nor a pre-release,
\* 404 when there is none
ServeLatest(releases) ==
  LET ok == {i \in 1..Len(releases) :
               ~releases[i].Draft /\ ~releases[i].Prerelease}
  IN IF ok = {} THEN [status |-> 404, release |-> NoRelease]
     ELSE [status |-> StatusOK,
           release |-> releases[CHOOSE i \in ok : \A j \in ok : i <= j]]

\* doGetRequest: fault "transport" is httpClient.Do failing, fault "status"
\* is a server error answer; an answer other than 200 is an error
doGetRequest(fault, status) ==
  IF fault = "transport" THEN "HTTP request failed"
  ELSE IF fault = "status" \/ status # StatusOK THEN "GitHub API returned status"
  ELSE "nil"

\* GetLatestRelease: one GET of the latest-release endpoint, decoded as is;
\* requests: the calls of httpClient.Do it made
GetLatestRelease(releases, fault) ==
  LET resp == ServeLatest(releases)
      err  == doGetRequest(fault, resp.status)
  IN [err      |-> err,
      release  |-> IF err = "nil" THEN resp.release ELSE NoRelease,
      requests |-> 1]

\* a loop that does not pass over drafts
RECURSIVE FirstForChannel_draftsKept(_, _, _)
FirstForChannel_draftsKept(releases, channel, i) ==
  IF i > Len(releases) THEN 0
  ELSE IF channel = <<>> /\ releases[i].Prerelease
    THEN FirstForChannel_draftsKept(releases, channel, i + 1)
  ELSE IF channel # <<>> /\ releases[i].Prerelease
    THEN IF matchesChannel(releases[i].TagName, channel) THEN i
         ELSE FirstForChannel_draftsKept(releases, channel, i + 1)
  ELSE IF channel = <<>> /\ ~releases[i].Prerelease THEN i
  ELSE FirstForChannel_draftsKept(releases, channel, i + 1)

\* a loop that takes a stable release for a channel as well
RECURSIVE FirstForChannel_stableTaken(_, _, _)
FirstForChannel_stableTaken(releases, channel, i) ==
  IF i > Len(releases) THEN 0
  ELSE IF releases[i].Draft THEN FirstForChannel_stableTaken(releases, channel, i + 1)
  ELSE IF channel = <<>> /\ releases[i].Prerelease
    THEN FirstForChannel_stableTaken(releases, channel, i + 1)
  ELSE IF channel # <<>> /\ releases[i].Prerelease
    THEN IF matchesChannel(releases[i].TagName, channel) THEN i
         ELSE FirstForChannel_stableTaken(releases, channel, i + 1)
  ELSE i

\* the loop of GetLatestPreRelease from entry i of the decoded list
RECURSIVE FirstForChannel(_, _, _)
FirstForChannel(releases, channel, i) ==
  IF i > Len(releases) THEN 0
  ELSE IF releases[i].Draft THEN FirstForChannel(releases, channel, i + 1)
  ELSE IF channel = <<>> /\ releases[i].Prerelease
    THEN FirstForChannel(releases, channel, i + 1)
  ELSE IF channel # <<>> /\ releases[i].Prerelease
    THEN IF matchesChannel(releases[i].TagName, channel) THEN i
         ELSE FirstForChannel(releases, channel, i + 1)
  ELSE IF channel = <<>> /\ ~releases[i].Prerelease THEN i
  ELSE FirstForChannel(releases, channel, i + 1)

\* a filter that finds nothing and returns no error
GetLatestPreRelease_noError(releases, channel, fault) ==
  LET err == doGetRequest(fault, StatusOK)
      i   == FirstForChannel(releases, channel, 1)
  IN IF err # "nil" THEN [err |-> err, release |-> NoRelease, requests |-> 1]
     ELSE IF i = 0 THEN [err |-> "nil", release |-> NoRelease, requests |-> 1]
     ELSE [err |-> "nil", release |-> releases[i], requests |-> 1]

\* GetLatestPreRelease: one GET of the release list, then the filter
GetLatestPreRelease(releases, channel, fault) ==
  LET err == doGetRequest(fault, StatusOK)
      i   == FirstForChannel(releases, channel, 1)
  IN IF err # "nil" THEN [err |-> err, release |-> NoRelease, requests |-> 1]
     ELSE IF i = 0
       THEN [err |-> "no release found for channel", release |-> NoRelease,
             requests |-> 1]
     ELSE [err |-> "nil", release |-> releases[i], requests |-> 1]

WebPrefix ==
  <<"h", "t", "t", "p", "s", ":", "/", "/", "g", "i", "t", "h", "u", "b", ".",
    "c", "o", "m", "/", "B", "i", "n", "s", "a", "b", "b", "a", "r", "/",
    "t", "a", "s", "k", "l", "o", "g", "/", "r", "e", "l", "e", "a", "s", "e",
    "s", "/", "t", "a", "g", "/">>

\* GetReleaseURL
GetReleaseURL(tagName) == WebPrefix \o tagName

\* the status codes an answer may carry
StatusCodes == {StatusOK, 201, 204, 302, 404, 500}

\* a download that copies the body of an error answer to the sink
DownloadAsset_bodyCopied(fault, status, body, room) ==
  LET err == doGetRequest(fault, status)
      n   == IF room < Len(body) THEN room ELSE Len(body)
  IN IF err = "HTTP request failed"
     THEN [err |-> err, code |-> <<>>, written |-> <<>>, requests |-> 1]
     ELSE [err      |-> IF err # "nil" THEN err
                        ELSE IF n < Len(body) THEN "write failed" ELSE "nil",
           code     |-> IF err # "nil" THEN FormatInt(status) ELSE <<>>,
           written  |-> SubSeq(body, 1, n),
           requests |-> 1]

\* DownloadAsset(url, out): one doGetRequest, whose error is returned as it
\* is, the status code printed with %d in it; then io.Copy(out, body) into a
\* sink that takes room blocks before its Write fails. written: what the
\* sink was given; requests: the calls of httpClient.Do
DownloadAsset(fault, status, body, room) ==
  LET err == doGetRequest(fault, status)
      n   == IF room < Len(body) THEN room ELSE Len(body)
  IN IF err # "nil"
     THEN [err      |-> err,
           code     |-> IF err = "GitHub API returned status"
                        THEN FormatInt(status) ELSE <<>>,
           written  |-> <<>>,
           requests |-> 1]
     ELSE [err      |-> IF n < Len(body) THEN "write failed" ELSE "nil",
           code     |-> <<>>,
           written  |-> SubSeq(body, 1, n),
           requests |-> 1]

(***************************************************************************)
(* Upgrade orchestrator, checking part: internal/updater/updater.go        *)
(***************************************************************************)
Ch_stable  == <<"s", "t", "a", "b", "l", "e">>
Ch_alpha   == <<"a", "l", "p", "h", "a">>
Ch_beta    == <<"b", "e", "t", "a">>
Ch_rc      == <<"r", "c">>
Ch_nightly == <<"n", "i", "g", "h", "t", "l", "y">>

\* a resolution that takes a label beginning with a channel's name for it
determineChannel_prefix(currentVersion, configChannel) ==
  IF configChannel # <<>> /\ configChannel # Ch_stable THEN configChannel
  ELSE IF Prerelease(currentVersion) # <<>>
            /\ \E ch \in {Ch_alpha, Ch_beta, Ch_rc} :
                 HasPrefix(Split(Prerelease(currentVersion), ".")[1], ch)
    THEN CHOOSE ch \in {Ch_alpha, Ch_beta, Ch_rc} :
           HasPrefix(Split(Prerelease(currentVersion), ".")[1], ch)
  ELSE <<>>

\* determineChannel
determineChannel(currentVersion, configChannel) ==
  IF configChannel # <<>> /\ configChannel # Ch_stable THEN configChannel
  ELSE IF Prerelease(currentVersion) # <<>>
            /\ Split(Prerelease(currentVersion), ".")[1] \in {Ch_alpha, Ch_beta, Ch_rc}
    THEN Split(Prerelease(currentVersion), ".")[1]
  ELSE <<>>

NoMarker == [exists |-> FALSE, mtime |-> 0]

\* a gate with the comparison of the age turned round
shouldCheckForUpdate_inverted(m, t) == ~m.exists \/ t - m.mtime < CheckInterval

\* shouldCheckForUpdate: os.Stat of the marker, then the age of its ModTime
shouldCheckForUpdate(m, t) == ~m.exists \/ t - m.mtime > CheckInterval

\* updateCacheTimestamp: os.OpenFile(O_CREATE|O_WRONLY) and Close. The open
\* creates a missing file, with the current time; it writes nothing to a file
\* that exists, whose modification time stays. openOK: the open succeeded.
updateCacheTimestamp(m, t, openOK) ==
  IF ~openOK THEN m
  ELSE IF m.exists THEN m
  ELSE [exists |-> TRUE, mtime |-> t]

OS_linux   == <<"l", "i", "n", "u", "x">>
OS_darwin  == <<"d", "a", "r", "w", "i", "n">>
Arch_amd64 == <<"a", "m", "d", "6", "4">>
Arch_arm64 == <<"a", "r", "m", "6", "4">>
Arch_386   == <<"3", "8", "6">>

\* getAssetNameForPlatform
getAssetNameForPlatform(os, arch) ==
  os \o <<"_">> \o
    (IF arch = Arch_amd64 THEN <<"x", "8", "6", "_", "6", "4">>
     ELSE IF arch = Arch_386 THEN <<"i", "3", "8", "6">>
     ELSE arch)

\* the asset scan of CheckForUpdate: the first asset whose name contains the
\* platform key and whose URL is not empty ends the loop; 0 when the loop
\* leaves downloadURL empty
RECURSIVE FindAsset(_, _, _)
FindAsset(assets, key, i) ==
  IF i > Len(assets) THEN 0
  ELSE IF Contains(assets[i].Name, key) THEN i
  ELSE FindAsset(assets, key, i + 1)

NoInfo ==
  [nil |-> TRUE, CurrentVersion |-> <<>>, LatestVersion |-> <<>>,
   ReleaseURL |-> <<>>, ReleaseNotes |-> <<>>, DownloadURL |-> <<>>,
   AssetName |-> <<>>, IsPreRelease |-> FALSE]

\* the fetch of CheckForUpdate: the stable endpoint for the empty channel,
\* the release list otherwise
Fetch(effectiveChannel, releases, fault) ==
  IF effectiveChannel = <<>> THEN GetLatestRelease(releases, fault)
  ELSE GetLatestPreRelease(releases, effectiveChannel, fault)

\* the release descriptor a call used, as far as the claims read it
NoSource == [TagName |-> <<>>, Prerelease |-> FALSE, Draft |-> FALSE,
             AssetNames |-> <<>>]

SourceOf(release) ==
  [TagName |-> release.TagName, Prerelease |-> release.Prerelease,
   Draft |-> release.Draft,
   AssetNames |-> [i \in 1..Len(release.Assets) |-> release.Assets[i].Name]]

\* CheckForUpdate, as the outcome of one call: the UpdateInfo and error it
\* returns, the number of requests it issued, whether it reached
\* updateCacheTimestamp, and the release descriptor it used
NoOutcome ==
  [info |-> NoInfo, err |-> "nil", requests |-> 0, touch |-> FALSE,
   throttled |-> FALSE, fetched |-> FALSE, channel |-> <<>>, release |-> NoSource]

\* a check that offers every release the current version is not newer than
CheckOffer_notOlder(on, current, latest, release, a) ==
  IF ~latest.ok THEN [on EXCEPT !.err = "failed to parse latest version"]
  ELSE IF IsNewerThan(current, latest) THEN on
  ELSE IF a = 0 \/ release.Assets[a].BrowserDownloadURL = <<>>
    THEN [on EXCEPT !.err = "no binary found for platform"]
  ELSE [on EXCEPT !.info =
          [nil            |-> FALSE,
           CurrentVersion |-> String(current),
           LatestVersion  |-> String(latest),
           ReleaseURL     |-> GetReleaseURL(release.TagName),
           ReleaseNotes   |-> release.Body,
           DownloadURL    |-> release.Assets[a].BrowserDownloadURL,
           AssetName      |-> release.Assets[a].Name,
           IsPreRelease   |-> release.Prerelease]]

\* a check that takes a release without an asset for the platform for no update
CheckOffer_silentSkip(on, current, latest, release, a) ==
  IF ~latest.ok THEN [on EXCEPT !.err = "failed to parse latest version"]
  ELSE IF ~IsNewerThan(latest, current) THEN on
  ELSE IF a = 0 \/ release.Assets[a].BrowserDownloadURL = <<>> THEN on
  ELSE [on EXCEPT !.info =
          [nil            |-> FALSE,
           CurrentVersion |-> String(current),
           LatestVersion  |-> String(latest),
           ReleaseURL     |-> GetReleaseURL(release.TagName),
           ReleaseNotes   |-> release.Body,
           DownloadURL    |-> release.Assets[a].BrowserDownloadURL,
           AssetName      |-> release.Assets[a].Name,
           IsPreRelease   |-> release.Prerelease]]

\* CheckForUpdate from "Parse latest version" on
CheckOffer(on, current, latest, release, a) ==
  IF ~latest.ok THEN [on EXCEPT !.err = "failed to parse latest version"]
  ELSE IF ~IsNewerThan(latest, current) THEN on
  ELSE IF a = 0 \/ release.Assets[a].BrowserDownloadURL = <<>>
    THEN [on EXCEPT !.err = "no binary found for platform"]
  ELSE [on EXCEPT !.info =
          [nil            |-> FALSE,
           CurrentVersion |-> String(current),
           LatestVersion  |-> String(latest),
           ReleaseURL     |-> GetReleaseURL(release.TagName),
           ReleaseNotes   |-> release.Body,
           DownloadURL    |-> release.Assets[a].BrowserDownloadURL,
           AssetName      |-> release.Assets[a].Name,
           IsPreRelease   |-> release.Prerelease]]

\* CheckForUpdate from the error test of the fetch on
CheckFetched(current, eff, got, os, arch) ==
  IF got.err # "nil"
  THEN [NoOutcome EXCEPT !.err = "failed to fetch latest release",
                         !.requests = got.requests, !.channel = eff]
  ELSE CheckOffer([NoOutcome EXCEPT !.requests = got.requests, !.touch = TRUE,
                     !.fetched = TRUE, !.channel = eff,
                     !.release = SourceOf(got.release)],
                  current, ParseVersion(got.release.TagName), got.release,
                  FindAsset(got.release.Assets, getAssetNameForPlatform(os, arch), 1))

\* a check that stamps the marker before it gives up on the current version
CheckParsed_stampOnReject(current, channel, releases, fault, os, arch) ==
  IF ~current.ok THEN [NoOutcome EXCEPT !.touch = TRUE]
  ELSE CheckFetched(current, determineChannel(current, channel),
                    Fetch(determineChannel(current, channel), releases, fault),
                    os, arch)

\* CheckForUpdate from the error test of ParseVersion(currentVersion) on
CheckParsed(current, channel, releases, fault, os, arch) ==
  IF ~current.ok THEN NoOutcome
  ELSE CheckFetched(current, determineChannel(current, channel),
                    Fetch(determineChannel(current, channel), releases, fault),
                    os, arch)

\* CheckForUpdate
CheckOutcome(m, t, currentVersion, channel, releases, fault, os, arch) ==
  IF ~shouldCheckForUpdate(m, t) THEN [NoOutcome EXCEPT !.throttled = TRUE]
  ELSE CheckParsed(ParseVersion(currentVersion), channel, releases, fault, os, arch)

(***************************************************************************)
(* Inputs of the model: version strings, channels, platforms, and the      *)
(* release lists (newest first) the release-hosting service may hold       *)
(***************************************************************************)
V_dev     == <<"d", "e", "v">>
V_empty   == <<>>
V_100     == <<"v", "1", ".", "0", ".", "0">>
V_100a1   == <<"1", ".", "0", ".", "0", "-", "a", "l", "p", "h", "a", ".", "1">>
V_bad     == <<"1", ".", "a", ".", "3">>
V_120     == <<"1", ".", "2", ".", "0">>

T_100     == <<"v", "1", ".", "0", ".", "0">>
T_110     == <<"v", "1", ".", "1", ".", "0">>
T_110a2   == <<"v", "1", ".", "1", ".", "0", "-", "a", "l", "p", "h", "a", ".", "2">>
T_200     == <<"v", "2", ".", "0", ".", "0">>
T_latest  == <<"l", "a", "t", "e", "s", "t">>
T_120a1   == <<"v", "1", ".", "2", ".", "0", "-", "a", "l", "p", "h", "a", ".", "1">>

CurrentVersions == {V_dev, V_empty, V_100, V_100a1, V_bad, V_120}

ConfigChannels == {<<>>, Ch_stable, Ch_alpha, Ch_nightly}

Platforms == {<<OS_linux, Arch_amd64>>, <<OS_darwin, Arch_arm64>>}

S_tasklog == <<"t", "a", "s", "k", "l", "o", "g", "_">>

\* a release asset: an archive name in the style tasklog_<os>_<arch>, and
\* the URL it is served at
AssetOf(tag, osArch) ==
  [Name |-> S_tasklog \o osArch, BrowserDownloadURL |-> <<"u", "/">> \o tag \o <<"/">> \o osArch]

A_linux_x86  == <<"l", "i", "n", "u", "x", "_", "x", "8", "6", "_", "6", "4">>
A_darwin_arm == <<"d", "a", "r", "w", "i", "n", "_", "a", "r", "m", "6", "4">>
A_windows    == <<"w", "i", "n", "d", "o", "w", "s", "_", "a", "r", "m", "6", "4">>

ReleaseOf(tag, pre, draft, assetKeys) ==
  [TagName |-> tag, Body |-> <<"n", "o", "t", "e", "s">>, Prerelease |-> pre,
   Draft |-> draft,
   Assets |-> [i \in 1..Len(assetKeys) |-> AssetOf(tag, assetKeys[i])]]

R_100    == ReleaseOf(T_100, FALSE, FALSE, <<A_linux_x86, A_darwin_arm>>)
R_110    == ReleaseOf(T_110, FALSE, FALSE, <<A_windows, A_linux_x86, A_darwin_arm>>)
R_110a2  == ReleaseOf(T_110a2, TRUE, FALSE, <<A_linux_x86, A_darwin_arm>>)
R_200d   == ReleaseOf(T_200, FALSE, TRUE, <<A_linux_x86, A_darwin_arm>>)
R_200w   == ReleaseOf(T_200, FALSE, FALSE, <<A_windows>>)
R_latest == ReleaseOf(T_latest, FALSE, FALSE, <<A_linux_x86>>)
R_120a1d == ReleaseOf(T_120a1, TRUE, TRUE, <<A_linux_x86, A_darwin_arm>>)

RemoteStates ==
  { <<>>,
    <<R_100>>,
    <<R_200d, R_110a2, R_110, R_100>>,
    <<R_200w, R_110>>,
    <<R_latest, R_100>>,
    <<R_120a1d, R_110a2, R_100>> }

Faults == {"none", "transport", "status"}

(***************************************************************************)
(* State                                                                   *)
(***************************************************************************)
VARIABLES
  now,      \* the wall clock, time.Now()
  marker,   \* the throttle marker <cacheDir>/update_check_timestamp
  platform, \* <<runtime.GOOS, runtime.GOARCH>>
  chk,      \* the call of CheckForUpdate that just returned: inputs and outcome
  lastFetch, \* when a call last got an answer from the release source
  live,     \* the file at the resolved path of the running binary
  backup,   \* the file at <binary>.backup
  probe,    \* whether <dir>/.tasklog_write_test exists
  tmp,      \* per process, its file tasklog-update-* in the temp directory
  proc,     \* per process, where it is in the upgrade code and its locals
  applied   \* the function of the updater just applied on its own: arguments, result

checkVars == <<now, marker, platform, chk, lastFetch, applied>>

fileVars == <<live, backup, probe, tmp>>

vars == <<now, marker, platform, chk, lastFetch, live, backup, probe, tmp, proc, applied>>

NoApplication == [fn |-> "none"]

NoFetch == [some |-> FALSE, at |-> 0]

NoCall ==
  [called |-> FALSE, at |-> 0, before |-> NoMarker, currentVersion |-> <<>>,
   configChannel |-> <<>>, releases |-> <<>>, prevFetch |-> NoFetch,
   opened |-> FALSE, out |-> NoOutcome]

(***************************************************************************)
(* Files and processes of the upgrade                                      *)
(***************************************************************************)
\* a binary is BinLen blocks; a file being written holds a prefix of them
BinLen == 2

Bin(tag) == [i \in 1..BinLen |-> <<tag, i>>]

\* the binary installed before any upgrade
OldBin == Bin("old")

\* the bodies the release source may serve for a download URL
Downloads == {Bin("a"), Bin("b")}

Procs == {"p1", "p2"}

NoFile == [exists |-> FALSE, content |-> <<>>, mode |-> "none"]

FileOf(content, mode) == [exists |-> TRUE, content |-> content, mode |-> mode]

\* a process outside the upgrade code; the fields are the locals and results
\* of downloadAndReplace, PerformUpgrade, RollbackUpgrade and runUpgrade
IdleProc ==
  [pc          |-> "idle",
   top         |-> "none",   \* the function the caller entered
   official    |-> FALSE,    \* IsOfficialBuild()
   checksumURL |-> "",
   sumOffered  |-> FALSE,    \* the release of updateInfo carries checksums.txt
   version     |-> <<>>,     \* the version the build was stamped with
   channel     |-> <<>>,     \* cfg.Update.Channel
   preRun      |-> "none",   \* what the check of PersistentPreRun did
   ruCheck     |-> [throttled |-> FALSE, requests |-> 0, offer |-> FALSE],
   info        |-> NoInfo,   \* updateInfo of runUpgrade
   backupPath  |-> "",       \* the backup path returned
   err         |-> "nil",    \* the error returned
   restoreErr  |-> "nil",    \* restoreErr of runUpgrade
   outcome     |-> "none",   \* how the entered function ended
   trace       |-> <<>>,     \* what the run did so far, in order
   printed     |-> <<>>,     \* what runUpgrade printed about a failure
   pre         |-> NoFile,   \* the live binary when the run began
   preBackup   |-> NoFile,   \* the backup file when the run began
   body        |-> <<>>,     \* the response body being streamed
   sumData     |-> <<>>,     \* checksumData of verifyChecksum
   src         |-> <<>>,     \* the content behind copyFile's open source
   srcMode     |-> "none",   \* srcInfo.Mode() of copyFile
   dst         |-> "none",   \* the path the file behind copyFile's dstFile is at
   n           |-> 0]        \* blocks copied so far by io.Copy

\* the permission bits an installed binary may have
InstalledModes == {"0755", "0700"}

InitFiles ==
  /\ live \in {FileOf(OldBin, m) : m \in InstalledModes}
  /\ backup = NoFile
  /\ probe = FALSE
  /\ tmp = [p \in Procs |-> NoFile]
  /\ proc = [p \in Procs |-> IdleProc]

InitCheck ==
  /\ now = 0
  /\ marker = NoMarker
  /\ platform \in Platforms
  /\ chk = NoCall
  /\ lastFetch = NoFetch
  /\ applied = NoApplication
  /\ InitFiles

\* time passes between two calls
Tick ==
  /\ ~chk.called
  /\ now < MaxTime
  /\ now' = now + 1
  /\ UNCHANGED <<marker, platform, chk, lastFetch, fileVars, proc, applied>>

\* the caller has taken the result of the call
Consume ==
  /\ chk.called
  /\ chk' = NoCall
  /\ UNCHANGED <<now, marker, platform, lastFetch, fileVars, proc, applied>>

\* Updater.CheckForUpdate(currentVersion, channel), against the release list
\* the service holds at the time of the call; when the call reaches
\* updateCacheTimestamp, the open of the marker file succeeds or fails
CheckForUpdate(currentVersion, channel, releases, fault) ==
  \E out \in {CheckOutcome(marker, now, currentVersion, channel, releases, fault,
                            platform[1], platform[2])} :
    \E openOK \in (IF out.touch THEN BOOLEAN ELSE {TRUE}) :
      /\ ~chk.called
      /\ marker' = IF out.touch THEN updateCacheTimestamp(marker, now, openOK)
                   ELSE marker
      /\ chk' = [called |-> TRUE, at |-> now, before |-> marker,
                 currentVersion |-> currentVersion, configChannel |-> channel,
                 releases |-> releases, prevFetch |-> lastFetch, opened |-> out.touch /\ openOK,
                 out |-> out]
      /\ lastFetch' = IF out.fetched THEN [some |-> TRUE, at |-> now] ELSE lastFetch
      /\ UNCHANGED <<now, platform, fileVars, proc, applied>>

\* a call while the marker is fresh: the release source is not consulted,
\* so one state of it stands for all
ThrottledCall ==
  /\ ~chk.called
  /\ ~shouldCheckForUpdate(marker, now)
  /\ \E v \in CurrentVersions, c \in ConfigChannels :
       CheckForUpdate(v, c, <<>>, "none")

\* a call that passes the throttle gate
AllowedCall ==
  /\ ~chk.called
  /\ shouldCheckForUpdate(marker, now)
  /\ \E v \in CurrentVersions, c \in ConfigChannels, rs \in RemoteStates,
        f \in Faults :
       CheckForUpdate(v, c, rs, f)

NextCheck == Tick \/ ThrottledCall \/ AllowedCall \/ Consume

SpecCheck == InitCheck /\ [][NextCheck]_vars

(***************************************************************************)
(* The functions of the updater applied on their own                       *)
(***************************************************************************)
\* version strings with the pre-release labels determineChannel looks at
P_100b2  == <<"1", ".", "0", ".", "0", "-", "b", "e", "t", "a", ".", "2">>
P_100rc1 == <<"v", "1", ".", "0", ".", "0", "-", "r", "c", ".", "1">>
P_100rcx == <<"1", ".", "0", ".", "0", "-", "r", "c", "1">>
P_100a   == <<"1", ".", "0", ".", "0", "-", "a", "l", "p", "h", "a">>
P_100d   == <<"1", ".", "0", ".", "0", "-", "d", "e", "v">>
P_100ab  == <<"1", ".", "0", ".", "0", "-", "a", "l", "p", "h", "a", "+", "b", ".", "1">>

ChannelVersions ==
  {V_100, V_100a1, V_dev, V_120, P_100b2, P_100rc1, P_100rcx, P_100a, P_100d, P_100ab}

ChannelConfigs == {<<>>, Ch_stable, Ch_alpha, Ch_beta, Ch_rc, Ch_nightly}

\* determineChannel(currentVersion, configChannel) on a parsed version
ApplyDetermineChannel ==
  /\ \E v \in ChannelVersions, c \in ChannelConfigs :
       /\ ParseVersion(v).ok
       /\ applied' = [fn |-> "determineChannel", version |-> v, channel |-> c,
                      result |-> determineChannel(ParseVersion(v), c)]
  /\ UNCHANGED <<now, marker, platform, chk, lastFetch, fileVars, proc>>

\* the lists of RemoteStates, and lists with a release whose tag names a
\* channel and whose pre-release flag is not set
T_100a1 == <<"v", "1", ".", "0", ".", "0", "-", "a", "l", "p", "h", "a", ".", "1">>

R_100a1  == ReleaseOf(T_100a1, TRUE, FALSE, <<A_linux_x86, A_darwin_arm>>)
R_110a2u == ReleaseOf(T_110a2, FALSE, FALSE, <<A_linux_x86, A_darwin_arm>>)

ReleaseLists ==
  RemoteStates \cup
    { <<R_110a2u, R_100a1>>,
      <<R_110a2, R_100a1>>,
      <<R_200d>> }

\* GetLatestPreRelease(channel) against a release list
ApplyGetLatestPreRelease ==
  /\ \E rs \in ReleaseLists, ch \in {<<>>, Ch_alpha, Ch_beta, Ch_rc}, f \in Faults :
       applied' = [fn |-> "GetLatestPreRelease", releases |-> rs, channel |-> ch,
                   fault |-> f, result |-> GetLatestPreRelease(rs, ch, f)]
  /\ UNCHANGED <<now, marker, platform, chk, lastFetch, fileVars, proc>>

\* version strings to be compared: with and without the "v", short, with a
\* pre-release identifier, with build metadata
P_10    == <<"1", ".", "0">>
P_100   == <<"1", ".", "0", ".", "0">>
P_100m  == <<"1", ".", "0", ".", "0", "+", "b", "7">>

OrderVersions ==
  {V_100, P_100, P_10, P_100m, V_100a1, T_110a2, P_100b2, P_100rc1, P_100a,
   P_100ab, V_dev, V_120}

\* a.IsNewerThan(b) on two parsed versions
ApplyIsNewerThan ==
  /\ \E a \in OrderVersions, b \in OrderVersions :
       /\ ParseVersion(a).ok /\ ParseVersion(b).ok
       /\ applied' = [fn |-> "IsNewerThan", a |-> a, b |-> b,
                      result |-> IsNewerThan(ParseVersion(a), ParseVersion(b))]
  /\ UNCHANGED <<now, marker, platform, chk, lastFetch, fileVars, proc>>

\* GetLatestRelease() against a release list
ApplyGetLatestRelease ==
  /\ \E rs \in ReleaseLists, f \in Faults :
       applied' = [fn |-> "GetLatestRelease", releases |-> rs, fault |-> f,
                   result |-> GetLatestRelease(rs, f)]
  /\ UNCHANGED <<now, marker, platform, chk, lastFetch, fileVars, proc>>

\* DownloadAsset(url, out) for an answer and a sink
ApplyDownloadAsset ==
  /\ \E f \in {"none", "transport"}, st \in StatusCodes, b \in Downloads,
        room \in 0..BinLen :
       applied' = [fn |-> "DownloadAsset", fault |-> f, status |-> st, body |-> b,
                   room |-> room, result |-> DownloadAsset(f, st, b, room)]
  /\ UNCHANGED <<now, marker, platform, chk, lastFetch, fileVars, proc>>

\* ARCHIVE_NAME of install.sh, the name a release asset is published under:
\* tasklog_<version>_<os>_<arch>.tar.gz, with the arch amd64 or arm64
ArchiveName(version, os, arch) ==
  S_tasklog \o version \o <<"_">> \o os \o <<"_">> \o arch
    \o <<".", "t", "a", "r", ".", "g", "z">>

\* getAssetNameForPlatform() on a supported platform, and the asset scan of
\* CheckForUpdate over the asset published for that platform
ApplyGetAssetNameForPlatform ==
  /\ \E os \in {OS_linux, OS_darwin}, arch \in {Arch_amd64, Arch_arm64},
        v \in {P_100, TrimPrefix(T_110, <<"v">>)} :
       applied' = [fn |-> "getAssetNameForPlatform", os |-> os, arch |-> arch,
                   published |-> ArchiveName(v, os, arch),
                   result |-> getAssetNameForPlatform(os, arch),
                   found |-> FindAsset(<<[Name |-> ArchiveName(v, os, arch)]>>,
                                       getAssetNameForPlatform(os, arch), 1)]
  /\ UNCHANGED <<now, marker, platform, chk, lastFetch, fileVars, proc>>

NextFn ==
  \/ ApplyGetAssetNameForPlatform
  \/ ApplyDetermineChannel
  \/ ApplyGetLatestPreRelease
  \/ ApplyGetLatestRelease
  \/ ApplyIsNewerThan
  \/ ApplyDownloadAsset

SpecFn == InitCheck /\ [][NextFn]_vars

(***************************************************************************)
(* Upgrade orchestrator, installing part: downloadAndReplace,              *)
(* PerformUpgrade, RollbackUpgrade (updater.go) and runUpgrade             *)
(* (cmd/upgrade.go). One action per system call or request; each may fail. *)
(***************************************************************************)
BackupPath == "<binary>.backup"

\* the run of process p goes on with record r
Goto(p, r) == proc' = [proc EXCEPT ![p] = r]

\* process p goes on with record r after an os.Rename onto the binary's path:
\* a file another process holds open for writing stays the same file, at the
\* binary's path when it was the one renamed from the backup path, at no path
\* when it was the one the rename replaced
GotoRenamed(p, r, from) ==
  proc' = [q \in Procs |->
             IF q = p THEN r
             ELSE [proc[q] EXCEPT !.dst = IF @ = "live" THEN "gone"
                                          ELSE IF @ = from THEN "live"
                                          ELSE @]]

\* a write of one block at offset n of a file: bytes the file did not have
\* before that offset read as a hole
WriteAt(content, n, block) ==
  [i \in 1..(IF n < Len(content) THEN Len(content) ELSE n + 1) |->
     IF i = n + 1 THEN block
     ELSE IF i <= Len(content) THEN content[i]
     ELSE <<"hole", i>>]

Did(pr, event) == [pr EXCEPT !.trace = Append(@, event)]

\* a caller that returns the error of a failed upgrade without a rollback
Return_noRollback(pr, backupPath, err) ==
  [Did(pr, "return") EXCEPT !.backupPath = backupPath, !.err = err,
                            !.pc = "idle",
                            !.outcome = IF err = "nil" THEN "upgraded" ELSE "failed"]

\* downloadAndReplace returns (backupPath, err) to its caller. PerformUpgrade
\* hands both on; runUpgrade starts the rollback when err is set and the
\* backup path is not empty, and otherwise returns err
Return(pr, backupPath, err) ==
  LET r == [Did(pr, "return") EXCEPT !.backupPath = backupPath, !.err = err]
  IN IF pr.top = "runUpgrade" /\ err # "nil" /\ backupPath # ""
     THEN [r EXCEPT !.pc = "rb_resolve",
                    !.printed = <<<<"Upgrade failed", err>>, <<"Attempting rollback">>>>]
     ELSE [r EXCEPT !.pc = "idle",
                    !.outcome = IF err = "nil" THEN "upgraded" ELSE "failed"]

\* the deferred os.Remove(tmpPath) of downloadAndReplace
RemoveTmp(p) == tmp' = [tmp EXCEPT ![p] = NoFile]

\* no call is under way and the result of the last one has been taken
Fresh(pr) == pr.pc = "idle" /\ pr.top = "none"

\* the caller has taken what the function returned; the command's process ends
Exit(p) ==
  /\ proc[p].pc = "idle" /\ proc[p].top # "none"
  /\ Goto(p, IdleProc)
  /\ UNCHANGED <<checkVars, fileVars>>

\* a caller enters a function of the updater
Begin(top, pc) ==
  [IdleProc EXCEPT !.pc = pc, !.top = top, !.pre = live, !.preBackup = backup]

\* downloadAndReplace(downloadURL, checksumURL), entered directly
EnterDownloadAndReplace(p) ==
  /\ Fresh(proc[p])
  /\ \E sum \in {"", "checksums"} :
       Goto(p, [Begin("downloadAndReplace", "dr_resolve") EXCEPT !.checksumURL = sum])
  /\ UNCHANGED <<checkVars, fileVars>>

\* os.Executable and filepath.EvalSymlinks
ResolvePath(p) ==
  /\ proc[p].pc = "dr_resolve"
  /\ \E res \in {"ok", "failed to get current binary path",
                 "failed to resolve binary path"} :
       IF res = "ok" THEN Goto(p, [proc[p] EXCEPT !.pc = "dr_probe"])
       ELSE Goto(p, Return(proc[p], "", res))
  /\ UNCHANGED <<checkVars, fileVars>>

\* a probe made after the temp file was created, which its failure leaves
ProbeCreate_afterTemp(p) ==
  /\ proc[p].pc = "dr_probe"
  /\ \E ok \in BOOLEAN :
       IF ok
       THEN /\ probe' = TRUE
            /\ tmp' = tmp
            /\ Goto(p, [Did(proc[p], "probe create") EXCEPT !.pc = "dr_probe_rm"])
       ELSE /\ probe' = probe
            /\ tmp' = [tmp EXCEPT ![p] = FileOf(<<>>, "0600")]
            /\ Goto(p, Return(Did(proc[p], "tmp create"), "",
                              "insufficient permissions to update binary"))
  /\ UNCHANGED <<checkVars, live, backup>>

\* checkWritePermission: os.Create of the probe file
ProbeCreate(p) ==
  /\ proc[p].pc = "dr_probe"
  /\ \E ok \in BOOLEAN :
       IF ok
       THEN /\ probe' = TRUE
            /\ Goto(p, [Did(proc[p], "probe create") EXCEPT !.pc = "dr_probe_rm"])
       ELSE /\ probe' = probe
            /\ Goto(p, Return(proc[p], "", "insufficient permissions to update binary"))
  /\ UNCHANGED <<checkVars, live, backup, tmp>>

\* checkWritePermission: Close and os.Remove of the probe file
ProbeRemove(p) ==
  /\ proc[p].pc = "dr_probe_rm"
  /\ probe' = FALSE
  /\ Goto(p, [Did(proc[p], "probe remove") EXCEPT !.pc = "dr_tmp"])
  /\ UNCHANGED <<checkVars, live, backup, tmp>>

\* os.CreateTemp("", "tasklog-update-*"), and the defer of os.Remove
CreateTemp(p) ==
  /\ proc[p].pc = "dr_tmp"
  /\ \E ok \in BOOLEAN :
       IF ok
       THEN /\ tmp' = [tmp EXCEPT ![p] = FileOf(<<>>, "0600")]
            /\ Goto(p, [Did(proc[p], "tmp create") EXCEPT !.pc = "dr_get"])
       ELSE /\ tmp' = tmp
            /\ Goto(p, Return(proc[p], "", "failed to create temp file"))
  /\ UNCHANGED <<checkVars, live, backup, probe>>

\* DownloadAsset: doGetRequest for the download URL
RequestAsset(p) ==
  /\ proc[p].pc = "dr_get"
  /\ \E f \in Faults :
       IF doGetRequest(f, StatusOK) = "nil"
       THEN /\ \E b \in Downloads :
                 Goto(p, [Did(proc[p], "request") EXCEPT
                            !.pc = "dr_copy", !.body = b, !.n = 0])
            /\ tmp' = tmp
       ELSE /\ Goto(p, Return(Did(proc[p], "request"), "", "failed to download binary"))
            /\ RemoveTmp(p)
  /\ UNCHANGED <<checkVars, live, backup, probe>>

\* DownloadAsset: io.Copy(out, body), block by block; the last block is
\* followed by tmpFile.Close
WriteBlock(p) ==
  /\ proc[p].pc = "dr_copy"
  /\ \E ok \in BOOLEAN :
       IF ok
       THEN /\ tmp' = [tmp EXCEPT ![p].content = Append(@, proc[p].body[proc[p].n + 1])]
            /\ Goto(p, [Did(proc[p], "tmp write") EXCEPT
                          !.n = @ + 1,
                          !.pc = IF proc[p].n + 1 = Len(proc[p].body)
                                 THEN "dr_sum" ELSE "dr_copy"])
       ELSE /\ Goto(p, Return(proc[p], "", "failed to download binary"))
            /\ RemoveTmp(p)
  /\ UNCHANGED <<checkVars, live, backup, probe>>

IsSpace(c) == c \in {" ", "\n", "\t", "\r"}

\* strings.TrimSpace
RECURSIVE TrimSpace(_)
TrimSpace(s) ==
  IF Len(s) = 0 THEN s
  ELSE IF IsSpace(s[1]) THEN TrimSpace(Tail(s))
  ELSE IF IsSpace(s[Len(s)]) THEN TrimSpace(SubSeq(s, 1, Len(s) - 1))
  ELSE s

\* fmt.Sprintf("%x", sha256 of the content): a text that differs for any two
\* contents a file of the model can hold
Sha256Hex(content) == <<"#">> \o [i \in 1..Len(content) |-> content[i][1]]

\* what the release source may serve at the checksum URL: the digest of a
\* binary, bare, with a newline, or as a line "<digest>  <file>"; or nothing
ChecksumBodies ==
  UNION {{Sha256Hex(b), Sha256Hex(b) \o <<"\n">>, Sha256Hex(b) \o <<" ", " ", "f">>} :
           b \in Downloads}
    \cup {<<>>}

\* a comparison of the digests' lengths only
ChecksumError_lengthOnly(filePath, checksumData) ==
  IF Len(Sha256Hex(filePath.content)) # Len(TrimSpace(checksumData))
  THEN "checksum mismatch" ELSE "nil"

\* verifyChecksum past the download of the checksum: compare the digests
ChecksumError(filePath, checksumData) ==
  IF Sha256Hex(filePath.content) # TrimSpace(checksumData)
  THEN "checksum mismatch" ELSE "nil"

\* downloadAndReplace without a checksum URL skips the verification
SkipChecksum(p) ==
  /\ proc[p].pc = "dr_sum"
  /\ proc[p].checksumURL = ""
  /\ Goto(p, [proc[p] EXCEPT !.pc = "dr_chmod"])
  /\ UNCHANGED <<checkVars, fileVars>>

\* verifyChecksum(tmpPath, checksumURL): a temp file for the checksum, one
\* request for it, the digest of the downloaded file, the comparison; the
\* checksum temp file is removed on return
VerifyChecksum(p) ==
  /\ proc[p].pc = "dr_sum"
  /\ proc[p].checksumURL # ""
  /\ \/ /\ Goto(p, Return(Did(proc[p], "checksum temp file failed"), "",
                            "checksum verification failed"))
        /\ RemoveTmp(p)
     \/ /\ \E f \in Faults \ {"none"} :
             Goto(p, Return(Did(proc[p], "checksum request"), "",
                            "checksum verification failed"))
        /\ RemoveTmp(p)
     \/ \E data \in ChecksumBodies, opened \in BOOLEAN :
          IF opened /\ ChecksumError(tmp[p], data) = "nil"
          THEN /\ Goto(p, [Did(Did(proc[p], "checksum request"), "checksum ok")
                             EXCEPT !.pc = "dr_chmod", !.sumData = data])
               /\ tmp' = tmp
          ELSE /\ Goto(p, Return([Did(proc[p], "checksum request")
                                    EXCEPT !.sumData = data], "",
                                 "checksum verification failed"))
               /\ RemoveTmp(p)
  /\ UNCHANGED <<checkVars, live, backup, probe>>

\* a chmod whose failure returns with the temp file left behind
ChmodTmp_tmpLeft(p) ==
  /\ proc[p].pc = "dr_chmod"
  /\ \E ok \in BOOLEAN :
       IF ok
       THEN /\ tmp' = [tmp EXCEPT ![p].mode = "0755"]
            /\ Goto(p, [Did(proc[p], "tmp chmod") EXCEPT !.pc = "bk_open"])
       ELSE /\ Goto(p, Return(proc[p], "", "failed to make binary executable"))
            /\ tmp' = tmp
  /\ UNCHANGED <<checkVars, live, backup, probe>>

\* os.Chmod(tmpPath, 0755)
ChmodTmp(p) ==
  /\ proc[p].pc = "dr_chmod"
  /\ \E ok \in BOOLEAN :
       IF ok
       THEN /\ tmp' = [tmp EXCEPT ![p].mode = "0755"]
            /\ Goto(p, [Did(proc[p], "tmp chmod") EXCEPT !.pc = "bk_open"])
       ELSE /\ Goto(p, Return(proc[p], "", "failed to make binary executable"))
            /\ RemoveTmp(p)
  /\ UNCHANGED <<checkVars, live, backup, probe>>

\* copyFile(binaryPath, backupPath): os.Open(src)
BackupOpen(p) ==
  /\ proc[p].pc = "bk_open"
  /\ \E ok \in BOOLEAN :
       IF ok
       THEN /\ Goto(p, [proc[p] EXCEPT !.pc = "bk_create", !.src = live.content])
            /\ tmp' = tmp
       ELSE /\ Goto(p, Return(proc[p], "", "failed to create backup"))
            /\ RemoveTmp(p)
  /\ UNCHANGED <<checkVars, live, backup, probe>>

\* copyFile: os.Create(dst) makes an empty file, or empties the file that is
\* there and keeps its mode; io.Copy writes nothing from an empty source
BackupCreate(p) ==
  /\ proc[p].pc = "bk_create"
  /\ \E ok \in BOOLEAN :
       IF ok
       THEN /\ backup' = FileOf(<<>>, IF backup.exists THEN backup.mode ELSE "0644")
            /\ Goto(p, [Did(proc[p], "backup create") EXCEPT
                          !.pc = IF Len(proc[p].src) = 0 THEN "bk_stat" ELSE "bk_copy",
                          !.n = 0, !.dst = "backup"])
            /\ tmp' = tmp
       ELSE /\ backup' = backup
            /\ Goto(p, Return(proc[p], "", "failed to create backup"))
            /\ RemoveTmp(p)
  /\ UNCHANGED <<checkVars, live, probe>>

\* a copy whose write error is dropped, the upgrade going on to the rename
BackupWrite_errorDropped(p) ==
  /\ proc[p].pc = "bk_copy"
  /\ \E ok \in BOOLEAN :
       IF ok
       THEN /\ backup' = [backup EXCEPT !.content = Append(@, proc[p].src[proc[p].n + 1])]
            /\ Goto(p, [Did(proc[p], "backup write") EXCEPT
                          !.n = @ + 1,
                          !.pc = IF proc[p].n + 1 = Len(proc[p].src)
                                 THEN "bk_stat" ELSE "bk_copy"])
       ELSE /\ backup' = backup
            /\ Goto(p, [proc[p] EXCEPT !.pc = "dr_rename"])
  /\ UNCHANGED <<checkVars, live, probe, tmp>>

\* copyFile: io.Copy(dstFile, srcFile), block by block, each block written
\* at dstFile's offset to the file dstFile is open on, wherever it is now
BackupWrite(p) ==
  /\ proc[p].pc = "bk_copy"
  /\ \E ok \in BOOLEAN :
       IF ok
       THEN /\ backup' = IF proc[p].dst = "backup"
                         THEN [backup EXCEPT !.content =
                                 WriteAt(@, proc[p].n, proc[p].src[proc[p].n + 1])]
                         ELSE backup
            /\ live' = IF proc[p].dst = "live"
                       THEN [live EXCEPT !.content =
                               WriteAt(@, proc[p].n, proc[p].src[proc[p].n + 1])]
                       ELSE live
            /\ Goto(p, [Did(proc[p], "backup write") EXCEPT
                          !.n = @ + 1,
                          !.pc = IF proc[p].n + 1 = Len(proc[p].src)
                                 THEN "bk_stat" ELSE "bk_copy"])
            /\ tmp' = tmp
       ELSE /\ UNCHANGED <<live, backup>>
            /\ Goto(p, Return([proc[p] EXCEPT !.dst = "none"], "",
                              "failed to create backup"))
            /\ RemoveTmp(p)
  /\ UNCHANGED <<checkVars, probe>>

\* copyFile: os.Stat(src)
BackupStat(p) ==
  /\ proc[p].pc = "bk_stat"
  /\ \E ok \in BOOLEAN :
       IF ok
       THEN /\ Goto(p, [proc[p] EXCEPT !.pc = "bk_chmod", !.srcMode = live.mode])
            /\ tmp' = tmp
       ELSE /\ Goto(p, Return([proc[p] EXCEPT !.dst = "none"], "",
                              "failed to create backup"))
            /\ RemoveTmp(p)
  /\ UNCHANGED <<checkVars, live, backup, probe>>

\* a copy that leaves the backup with the mode it was created with
BackupChmod_modeKept(p) ==
  /\ proc[p].pc = "bk_chmod"
  /\ \E ok \in BOOLEAN :
       IF ok
       THEN /\ backup' = backup
            /\ Goto(p, [Did(proc[p], "backup done") EXCEPT !.pc = "dr_rename"])
            /\ tmp' = tmp
       ELSE /\ backup' = backup
            /\ Goto(p, Return(proc[p], "", "failed to create backup"))
            /\ RemoveTmp(p)
  /\ UNCHANGED <<checkVars, live, probe>>

\* copyFile: os.Chmod(dst, srcInfo.Mode()) of the file at the backup path,
\* which fails when none is there, and the deferred Close of both
BackupChmod(p) ==
  /\ proc[p].pc = "bk_chmod"
  /\ \E ok \in BOOLEAN :
       IF ok /\ backup.exists
       THEN /\ backup' = [backup EXCEPT !.mode = proc[p].srcMode]
            /\ Goto(p, [Did(proc[p], "backup done") EXCEPT !.pc = "dr_rename",
                                                          !.dst = "none"])
            /\ tmp' = tmp
       ELSE /\ backup' = backup
            /\ Goto(p, Return([proc[p] EXCEPT !.dst = "none"], "",
                              "failed to create backup"))
            /\ RemoveTmp(p)
  /\ UNCHANGED <<checkVars, live, probe>>

\* a rename whose failure returns no backup path
RenameOver_noBackupPath(p) ==
  /\ proc[p].pc = "dr_rename"
  /\ \E ok \in BOOLEAN :
       IF ok
       THEN /\ live' = tmp[p]
            /\ Goto(p, Return(Did(proc[p], "rename"), BackupPath, "nil"))
       ELSE /\ live' = live
            /\ Goto(p, Return(Did(proc[p], "rename failed"), "",
                              "failed to replace binary"))
  /\ RemoveTmp(p)
  /\ UNCHANGED <<checkVars, backup, probe>>

\* a replacement by copying over the binary, which a failure leaves half done
RenameOver_copying(p) ==
  /\ proc[p].pc = "dr_rename"
  /\ \E ok \in BOOLEAN :
       IF ok
       THEN /\ live' = tmp[p]
            /\ Goto(p, Return(Did(proc[p], "rename"), BackupPath, "nil"))
       ELSE /\ live' = [live EXCEPT !.content = SubSeq(tmp[p].content, 1, 1)]
            /\ Goto(p, Return(Did(proc[p], "rename failed"), BackupPath,
                              "failed to replace binary"))
  /\ RemoveTmp(p)
  /\ UNCHANGED <<checkVars, backup, probe>>

\* os.Rename(tmpPath, binaryPath): the file at the temp path becomes the
\* file at the binary's path in one step, or nothing changes
RenameOver(p) ==
  /\ proc[p].pc = "dr_rename"
  /\ \E ok \in BOOLEAN :
       IF ok
       THEN /\ live' = tmp[p]
            /\ GotoRenamed(p, Return(Did(proc[p], "rename"), BackupPath, "nil"), "tmp")
       ELSE /\ live' = live
            /\ Goto(p, Return(Did(proc[p], "rename failed"), BackupPath,
                              "failed to replace binary"))
  /\ RemoveTmp(p)
  /\ UNCHANGED <<checkVars, backup, probe>>

\* PerformUpgrade(updateInfo, confirm), entered directly, for a release that
\* was published with or without the checksum file the installer fetches
EnterPerformUpgrade(p) ==
  /\ Fresh(proc[p])
  /\ \E offered \in BOOLEAN :
       Goto(p, [Begin("PerformUpgrade", "pu_confirm") EXCEPT !.sumOffered = offered])
  /\ UNCHANGED <<checkVars, fileVars>>

\* a confirmation whose answer is not looked at
Confirm_unheeded(p) ==
  /\ proc[p].pc = "pu_confirm"
  /\ \E yes \in BOOLEAN :
       IF yes
       THEN Goto(p, [Did(proc[p], "confirm") EXCEPT !.pc = "dr_resolve",
                                                    !.checksumURL = ""])
       ELSE Goto(p, [Did(proc[p], "confirm") EXCEPT
                       !.pc = "dr_resolve", !.checksumURL = "",
                       !.err = "upgrade cancelled by user"])
  /\ UNCHANGED <<checkVars, fileVars>>

\* PerformUpgrade: the summary is printed and confirm is called; on true
\* downloadAndReplace(updateInfo.DownloadURL, "") is entered
Confirm(p) ==
  /\ proc[p].pc = "pu_confirm"
  /\ \E yes \in BOOLEAN :
       IF yes
       THEN Goto(p, [Did(proc[p], "confirm") EXCEPT !.pc = "dr_resolve",
                                                    !.checksumURL = ""])
       ELSE Goto(p, [Did(proc[p], "confirm") EXCEPT
                       !.pc = "idle", !.backupPath = "",
                       !.err = "upgrade cancelled by user", !.outcome = "failed"])
  /\ UNCHANGED <<checkVars, fileVars>>

\* RollbackUpgrade(backupPath), entered directly
EnterRollbackUpgrade(p) ==
  /\ Fresh(proc[p])
  /\ Goto(p, [Begin("RollbackUpgrade", "rb_resolve") EXCEPT !.backupPath = BackupPath])
  /\ UNCHANGED <<checkVars, fileVars>>

\* RollbackUpgrade returns restoreErr; runUpgrade then returns that the
\* upgrade and the rollback both failed
RollbackFailed(pr, restoreErr) ==
  IF pr.top = "runUpgrade"
  THEN [pr EXCEPT !.pc = "idle", !.restoreErr = restoreErr,
                  !.err = "upgrade and rollback both failed",
                  !.printed = @ \o <<<<"Rollback failed", restoreErr>>,
                                     <<"Your backup is saved at", pr.backupPath>>,
                                     <<"Please restore it manually">>>>,
                  !.outcome = "manual recovery needed"]
  ELSE [pr EXCEPT !.pc = "idle", !.restoreErr = restoreErr,
                  !.outcome = "rollback failed"]

\* RollbackUpgrade: os.Executable and filepath.EvalSymlinks
RollbackResolve(p) ==
  /\ proc[p].pc = "rb_resolve"
  /\ \E ok \in BOOLEAN :
       IF ok THEN Goto(p, [Did(proc[p], "rollback") EXCEPT !.pc = "rb_rename"])
       ELSE Goto(p, RollbackFailed(Did(proc[p], "rollback"),
                                   "failed to resolve binary path"))
  /\ UNCHANGED <<checkVars, fileVars>>

\* a rollback that copies the backup over the binary and leaves the backup
RollbackRename_copying(p) ==
  /\ proc[p].pc = "rb_rename"
  /\ \E ok \in BOOLEAN :
       IF ok /\ backup.exists
       THEN /\ live' = backup
            /\ backup' = backup
            /\ Goto(p, [Did(proc[p], "rollback rename") EXCEPT
                          !.pc = "idle", !.outcome = "rolled back"])
       ELSE /\ UNCHANGED <<live, backup>>
            /\ Goto(p, RollbackFailed(Did(proc[p], "rollback rename failed"),
                                      "rollback failed"))
  /\ UNCHANGED <<checkVars, probe, tmp>>

\* RollbackUpgrade: os.Rename(backupPath, binaryPath), which fails when no
\* file is at the backup path; runUpgrade then returns the upgrade's error,
\* or that both failed
RollbackRename(p) ==
  /\ proc[p].pc = "rb_rename"
  /\ \E ok \in BOOLEAN :
       IF ok /\ backup.exists
       THEN /\ live' = backup
            /\ backup' = NoFile
            /\ GotoRenamed(p, [Did(proc[p], "rollback rename") EXCEPT
                                 !.pc = "idle", !.outcome = "rolled back",
                                 !.printed = IF proc[p].top = "runUpgrade"
                                             THEN Append(@, <<"Rollback successful">>)
                                             ELSE @],
                           "backup")
       ELSE /\ UNCHANGED <<live, backup>>
            /\ Goto(p, RollbackFailed(Did(proc[p], "rollback rename failed"),
                                      "rollback failed"))
  /\ UNCHANGED <<checkVars, probe, tmp>>


\* the versions of official builds, and the channels their configuration sets
BuildVersions == {V_100, V_100a1}

\* CheckForUpdate past the throttle gate, for the official builds: what each
\* build, configuration, release list, fault and platform come to
BuildOutcomes ==
  [v \in BuildVersions, c \in ConfigChannels, rs \in RemoteStates, f \in Faults,
   pl \in Platforms |-> CheckOutcome(NoMarker, 0, v, c, rs, f, pl[1], pl[2])]

\* CheckForUpdate as the command calls it
CommandCheck(m, t, v, c, rs, f, pl) ==
  IF ~shouldCheckForUpdate(m, t) THEN [NoOutcome EXCEPT !.throttled = TRUE]
  ELSE BuildOutcomes[v, c, rs, f, pl]

\* the marker after the check, and what the check did
PreRunResults(m, t, v, c, pl) ==
  {<<IF out[1].touch THEN updateCacheTimestamp(m, t, out[2]) ELSE m,
     IF out[1].throttled THEN "throttled" ELSE "checked">> :
     out \in {<<CommandCheck(m, t, v, c, x[1], x[2], pl), x[3]>> :
                x \in RemoteStates \X Faults \X BOOLEAN}}

\* rootCmd.PersistentPreRun before the upgrade command: on an official build
\* checkForUpdates loads the configuration and, unless that fails or the
\* checks are disabled, calls CheckForUpdate(version, cfg.Update.Channel)
PersistentPreRun(p) ==
  /\ Fresh(proc[p])
  /\ \E official \in BOOLEAN, v \in BuildVersions, c \in ConfigChannels,
        cfg \in {"ok", "load failed", "disabled"} :
       LET r == [IdleProc EXCEPT !.pc = "cmd_run", !.top = "command",
                                 !.official = official, !.version = v,
                                 !.channel = IF cfg = "load failed" THEN <<>> ELSE c]
       IN IF ~official \/ cfg # "ok"
          THEN /\ c = <<>> \/ cfg # "load failed"
               /\ cfg = "ok" \/ official
               /\ Goto(p, [r EXCEPT !.preRun = "skipped"])
               /\ marker' = marker
          ELSE \E res \in PreRunResults(marker, now, v, c, platform) :
                 /\ marker' = res[1]
                 /\ Goto(p, [r EXCEPT !.preRun = res[2]])
  /\ UNCHANGED <<now, platform, chk, lastFetch, fileVars, applied>>

\* runUpgrade: the test of IsOfficialBuild, the configuration, NewUpdater;
\* entered after PersistentPreRun, or directly
EnterRunUpgrade(p) ==
  /\ Fresh(proc[p]) \/ proc[p].pc = "cmd_run"
  /\ \E official \in (IF proc[p].pc = "cmd_run" THEN {proc[p].official} ELSE BOOLEAN),
        v \in (IF proc[p].pc = "cmd_run" THEN {proc[p].version} ELSE BuildVersions),
        c \in (IF proc[p].pc = "cmd_run" THEN {proc[p].channel} ELSE ConfigChannels) :
       IF official
       THEN Goto(p, [Begin("runUpgrade", "ru_check") EXCEPT
                       !.version = v, !.channel = c, !.preRun = proc[p].preRun])
       ELSE /\ c = <<>> /\ v = V_100
            /\ Goto(p, [Begin("runUpgrade", "idle") EXCEPT
                          !.err = "upgrade command is only available for official releases",
                          !.outcome = "failed"])
  /\ UNCHANGED <<checkVars, fileVars>>

\* runUpgrade: CheckForUpdate(version, cfg.Update.Channel) and the two early
\* returns; with an UpdateInfo it enters PerformUpgrade. offer: the release
\* source, asked now, holds an update for this build and platform
RunUpgradeCheck(p) ==
  /\ proc[p].pc = "ru_check"
  /\ \E rs \in RemoteStates, f \in Faults :
       \E out \in {CommandCheck(marker, now, proc[p].version, proc[p].channel, rs, f,
                                 platform)} :
         \E openOK \in (IF out.touch THEN BOOLEAN ELSE {TRUE}) :
           LET r == [Did(proc[p], "check") EXCEPT
                       !.version = <<>>, !.channel = <<>>,
                       !.ruCheck = [throttled |-> out.throttled,
                                    requests  |-> out.requests,
                                    offer     |-> /\ f = "none"
                                                  /\ ~BuildOutcomes[proc[p].version,
                                                         proc[p].channel, rs, f,
                                                         platform].info.nil]]
           IN /\ marker' = IF out.touch THEN updateCacheTimestamp(marker, now, openOK)
                           ELSE marker
              /\ IF out.err # "nil"
                 THEN Goto(p, [r EXCEPT !.pc = "idle",
                                        !.err = "failed to check for updates",
                                        !.outcome = "failed"])
                 ELSE IF out.info.nil
                 THEN Goto(p, [r EXCEPT !.pc = "idle", !.outcome = "already latest"])
                 ELSE \E offered \in BOOLEAN :
                        Goto(p, [r EXCEPT !.pc = "pu_confirm", !.info = out.info,
                                          !.preRun = "none",
                                          !.sumOffered = offered])
  /\ UNCHANGED <<now, platform, chk, lastFetch, fileVars, applied>>

\* one step of process p
Step(p) ==
  \/ EnterDownloadAndReplace(p)
  \/ EnterPerformUpgrade(p)
  \/ PersistentPreRun(p)
  \/ EnterRunUpgrade(p)
  \/ EnterRollbackUpgrade(p)
  \/ RunUpgradeCheck(p)
  \/ Confirm(p)
  \/ ResolvePath(p)
  \/ ProbeCreate(p)
  \/ ProbeRemove(p)
  \/ CreateTemp(p)
  \/ RequestAsset(p)
  \/ WriteBlock(p)
  \/ SkipChecksum(p)
  \/ VerifyChecksum(p)
  \/ ChmodTmp(p)
  \/ BackupOpen(p)
  \/ BackupCreate(p)
  \/ BackupWrite(p)
  \/ BackupStat(p)
  \/ BackupChmod(p)
  \/ RenameOver(p)
  \/ RollbackResolve(p)
  \/ RollbackRename(p)
  \/ Exit(p)

\* runUpgrade at its call of PerformUpgrade, past the confirmation: the
\* process is about to enter downloadAndReplace(updateInfo.DownloadURL, "")
EnterUpgrade(p) ==
  /\ Fresh(proc[p])
  /\ Goto(p, Begin("runUpgrade", "dr_resolve"))
  /\ UNCHANGED <<checkVars, fileVars>>

\* one step of the upgrade of process p, and of the rollback after it failed
StepUpgrade(p) ==
  \/ EnterUpgrade(p)
  \/ ResolvePath(p)
  \/ ProbeCreate(p)
  \/ ProbeRemove(p)
  \/ CreateTemp(p)
  \/ RequestAsset(p)
  \/ WriteBlock(p)
  \/ SkipChecksum(p)
  \/ ChmodTmp(p)
  \/ BackupOpen(p)
  \/ BackupCreate(p)
  \/ BackupWrite(p)
  \/ BackupStat(p)
  \/ BackupChmod(p)
  \/ RenameOver(p)
  \/ RollbackResolve(p)
  \/ RollbackRename(p)

\* two invocations of the upgrade command at once, each upgrading once, with
\* no lock between them
NextTwo == \E p \in Procs : StepUpgrade(p)

SpecTwo == InitCheck /\ [][NextTwo]_vars

\* the upgrade as one process runs it
Init == InitCheck

Next == Step("p1")

Spec == Init /\ [][Next]_vars

(***************************************************************************)
(* Claims on the throttle gate and the version gate, under SpecCheck       *)
(***************************************************************************)
\* the call that just returned found a marker younger than checkInterval
FreshMarkerCall ==
  chk.called /\ chk.before.exists /\ chk.at - chk.before.mtime < CheckInterval

\* C1: a call of CheckForUpdate that finds the throttle marker with
\* now - lastCheck < checkInterval returns no update and no error and issues
\* no request to the release source, whatever the version string and channel
C1_ThrottleGate ==
  FreshMarkerCall =>
    chk.out.info.nil /\ chk.out.err = "nil" /\ chk.out.requests = 0

\* C1 witness: a release build called with a fresh marker
C1_Witness ==
  /\ FreshMarkerCall
  /\ chk.currentVersion = V_100
  /\ chk.at > 0

\* C2 as claimed: after every call that passes the throttle gate and attempts
\* a fetch, the marker's timestamp is the time of that call, whether the fetch
\* succeeded or failed
C2_StampedOnEveryAttempt ==
  (chk.called /\ ~chk.out.throttled /\ chk.out.requests > 0) =>
    marker.exists /\ marker.mtime = chk.at

\* C3 as claimed: updateCacheTimestamp stamps the marker with the current time
\* also when the marker file exists already, so that a call made less than
\* checkInterval after a check that got its answer from the release source
\* is throttled; and the marker is never deleted
C3_OneCheckPerInterval ==
  /\ (chk.called /\ chk.opened) => marker.exists /\ marker.mtime = chk.at
  /\ (chk.called /\ chk.before.exists) => marker.exists
  /\ (chk.called /\ chk.before.exists /\ chk.prevFetch.some
        /\ chk.at - chk.prevFetch.at < CheckInterval) => chk.out.throttled

\* C4 as claimed: for the current version "dev" or "", CheckForUpdate returns
\* no update and no error and issues no request, whatever the release source
\* holds and whatever the state of the marker
C4_DevBuildNeverChecks ==
  (chk.called /\ chk.currentVersion \in {V_dev, V_empty}) =>
    chk.out.info.nil /\ chk.out.err = "nil" /\ chk.out.requests = 0

(***************************************************************************)
(* Claims on the installing part, under Spec                               *)
(***************************************************************************)
InTrace(pr, e) == \E i \in 1..Len(pr.trace) : pr.trace[i] = e

\* every occurrence of an event of later is preceded by the event first
Precedes(pr, first, later) ==
  \A i \in 1..Len(pr.trace) :
    pr.trace[i] \in later => \E j \in 1..(i - 1) : pr.trace[j] = first

\* downloadAndReplace has just returned to its caller
Returned(pr) == Len(pr.trace) > 0 /\ pr.trace[Len(pr.trace)] = "return"

\* the events that change a file or issue a request in downloadAndReplace
Effects ==
  {"probe create", "probe remove", "tmp create", "request", "tmp write",
   "checksum request", "tmp chmod", "backup create", "backup write",
   "backup done", "rename", "rename failed", "rollback rename"}

\* C5: the rename onto the live binary path is attempted only after the copy
\* of the live binary to <binary>.backup has completed, and then the backup
\* holds the live binary's content; when the backup copy fails no rename is
\* attempted, the backup path returned is empty, an error is returned, and
\* the live binary is as before
C5_BackupBeforeReplace ==
  \A p \in Procs :
    /\ Precedes(proc[p], "backup done", {"rename", "rename failed"})
    /\ proc[p].pc = "dr_rename" =>
         backup.exists /\ backup.content = live.content
    /\ (Returned(proc[p]) /\ proc[p].err = "failed to create backup") =>
         /\ ~InTrace(proc[p], "rename") /\ ~InTrace(proc[p], "rename failed")
         /\ proc[p].backupPath = ""
         /\ live = proc[p].pre

\* C5 witness: the rename was done in a run that had completed its backup
C5_Witness ==
  /\ Returned(proc["p1"]) /\ InTrace(proc["p1"], "rename")
  /\ live.content \in Downloads /\ backup.content = OldBin

\* C6: when the rename fails, downloadAndReplace returns the backup path and
\* the error, the backup file exists with the content of the binary before the
\* upgrade, and the live binary is unchanged; a non-empty backup path is
\* returned only when the backup copy completed
C6_RenameFailureKeepsBackup ==
  \A p \in Procs :
    /\ (Returned(proc[p]) /\ InTrace(proc[p], "rename failed")) =>
         /\ proc[p].backupPath = BackupPath
         /\ proc[p].err = "failed to replace binary"
         /\ backup.exists /\ backup.content = proc[p].pre.content
         /\ live = proc[p].pre
    /\ (Returned(proc[p]) /\ proc[p].backupPath # "") =>
         InTrace(proc[p], "backup done")

\* C6 witness: downloadAndReplace returned from a failed rename
C6_Witness ==
  /\ Returned(proc["p1"]) /\ InTrace(proc["p1"], "rename failed")
  /\ proc["p1"].top = "downloadAndReplace"

\* a complete binary: the installed one or a whole download
Complete(content) == content = OldBin \/ content \in Downloads

\* C7: when a run of the upgrade command returns an error, the live binary
\* path holds the complete content it held before the run; and in no state
\* of a run that began with a complete binary does the live binary path hold
\* a partly written file
C7_AtomicUpgrade ==
  /\ \A p \in Procs :
       (proc[p].top \in {"downloadAndReplace", "PerformUpgrade", "runUpgrade"}
          /\ Complete(proc[p].pre.content)) =>
         live.exists /\ Complete(live.content)
  /\ \A p \in Procs :
       (proc[p].top = "runUpgrade" /\ proc[p].pc = "idle" /\ proc[p].err # "nil") =>
         live.content = proc[p].pre.content

\* C7 witness: the rename failed and then the rollback failed too
C7_Witness ==
  /\ proc["p1"].top = "runUpgrade" /\ proc["p1"].pc = "idle"
  /\ proc["p1"].outcome = "manual recovery needed"
  /\ InTrace(proc["p1"], "rollback rename failed")

\* C8: when downloadAndReplace has a checksum URL and the checksum cannot be
\* fetched or differs from the SHA-256 of the downloaded file, it returns an
\* error and an empty backup path, and the live binary and the backup path are
\* as before the call; the backup is begun only with a matching checksum
C8_IntegrityCheck ==
  \A p \in Procs :
    /\ (Returned(proc[p]) /\ proc[p].err = "checksum verification failed") =>
         /\ proc[p].backupPath = ""
         /\ live = proc[p].pre /\ backup = proc[p].preBackup
         /\ ~InTrace(proc[p], "backup create")
    /\ (proc[p].checksumURL # "" /\ proc[p].pc \in {"dr_chmod", "bk_open"}) =>
         TrimSpace(proc[p].sumData) = Sha256Hex(proc[p].body)
    /\ (proc[p].checksumURL # "" /\ InTrace(proc[p], "backup create")) =>
         InTrace(proc[p], "checksum ok")

\* C8 witness: the checksum served is that of another binary
C8_Witness ==
  /\ Returned(proc["p1"]) /\ proc["p1"].err = "checksum verification failed"
  /\ proc["p1"].body = Bin("a") /\ proc["p1"].sumData = Sha256Hex(Bin("b"))

Count(pr, e) == Cardinality({i \in 1..Len(pr.trace) : pr.trace[i] = e})

\* C9: PerformUpgrade calls confirm once, before any download and any change
\* of a file; when confirm returns false it returns an empty backup path and
\* the error 'cancelled', issues no request and changes no file
C9_ConfirmationGate ==
  \A p \in Procs :
    proc[p].top \in {"PerformUpgrade", "runUpgrade"} =>
      /\ Count(proc[p], "confirm") <= 1
      /\ Precedes(proc[p], "confirm", Effects)
      /\ (proc[p].pc = "idle" /\ proc[p].top = "PerformUpgrade") =>
           Count(proc[p], "confirm") = 1
      /\ proc[p].err = "upgrade cancelled by user" =>
           /\ proc[p].backupPath = ""
           /\ \A i \in 1..Len(proc[p].trace) : proc[p].trace[i] \notin Effects
           /\ live = proc[p].pre /\ backup = proc[p].preBackup
           /\ ~tmp[p].exists /\ ~probe

\* C9 witness: the user declined
C9_Witness ==
  /\ proc["p1"].top = "PerformUpgrade" /\ proc["p1"].pc = "idle"
  /\ proc["p1"].err = "upgrade cancelled by user"

\* C10: when the probe file cannot be created, downloadAndReplace returns a
\* permissions error and an empty backup path without having created a temp
\* file, issued a request or begun a backup; the live binary and the backup
\* path are as before
C10_PermissionProbe ==
  \A p \in Procs :
    (Returned(proc[p]) /\ proc[p].err = "insufficient permissions to update binary") =>
      /\ proc[p].backupPath = ""
      /\ \A i \in 1..Len(proc[p].trace) : proc[p].trace[i] \notin Effects
      /\ ~tmp[p].exists
      /\ live = proc[p].pre /\ backup = proc[p].preBackup

\* C10 witness: the probe failed
C10_Witness ==
  /\ Returned(proc["p1"])
  /\ proc["p1"].err = "insufficient permissions to update binary"
  /\ proc["p1"].top = "downloadAndReplace"

\* C11: when downloadAndReplace returns no error, the live binary path holds
\* the downloaded bytes, the backup path returned is <binary>.backup, and the
\* backup file exists with the content and the permission bits the live
\* binary had before the upgrade
C11_SuccessfulUpgrade ==
  \A p \in Procs :
    (Returned(proc[p]) /\ proc[p].err = "nil") =>
      /\ live.exists /\ live.content = proc[p].body
      /\ proc[p].backupPath = BackupPath
      /\ backup.exists
      /\ backup.content = proc[p].pre.content
      /\ backup.mode = proc[p].pre.mode

\* C11 witness: a binary installed with mode 0700 was replaced
C11_Witness ==
  /\ Returned(proc["p1"]) /\ proc["p1"].err = "nil"
  /\ proc["p1"].pre = FileOf(OldBin, "0700")
  /\ live.content = Bin("a")

\* C12: RollbackUpgrade changes files in one step only, the rename of the
\* backup onto the binary's path: when it succeeds the live binary is the
\* file that was the backup and nothing is left at the backup path; when
\* RollbackUpgrade fails it returns an error and the live binary and the
\* backup are as they were
C12_Rollback ==
  [][\A p \in Procs :
       /\ (proc[p].pc = "rb_resolve" /\ proc'[p].pc # "rb_resolve") =>
            /\ live' = live /\ backup' = backup
            /\ proc'[p].pc = "idle" => proc'[p].restoreErr # "nil"
       /\ (proc[p].pc = "rb_rename" /\ proc'[p].pc # "rb_rename") =>
            \/ /\ proc'[p].restoreErr = "nil"
               /\ backup.exists /\ live' = backup /\ ~backup'.exists
            \/ /\ proc'[p].restoreErr # "nil"
               /\ live' = live /\ backup' = backup]_vars

\* C12 witness: RollbackUpgrade put back the binary an upgrade had replaced
C12_Witness ==
  /\ proc["p1"].top = "RollbackUpgrade" /\ proc["p1"].pc = "idle"
  /\ proc["p1"].restoreErr = "nil"
  /\ proc["p1"].pre.content = Bin("a")
  /\ live.content = OldBin /\ ~backup.exists

\* PerformUpgrade has returned an error to runUpgrade after the backup copy
\* had completed
FailedPastBackup(pr) ==
  /\ pr.top = "runUpgrade"
  /\ InTrace(pr, "backup done") /\ InTrace(pr, "return") /\ ~InTrace(pr, "rename")

\* C13: when PerformUpgrade fails after the backup was completed, runUpgrade
\* attempts the rollback once and returns either rolled back, with the error
\* of the upgrade, or in need of manual recovery, having printed the error of
\* the upgrade, the error of the rollback and the backup path; it never
\* returns success or no error
C13_FailureOutcomes ==
  \A p \in Procs :
    /\ proc[p].top = "runUpgrade" => Count(proc[p], "rollback") <= 1
    /\ (FailedPastBackup(proc[p]) /\ proc[p].pc = "idle") =>
         /\ Count(proc[p], "rollback") = 1
         /\ proc[p].err # "nil"
         /\ \/ /\ proc[p].outcome = "rolled back"
               /\ proc[p].err = "failed to replace binary"
               /\ proc[p].restoreErr = "nil"
               /\ live = proc[p].pre
            \/ /\ proc[p].outcome = "manual recovery needed"
               /\ proc[p].restoreErr # "nil"
               /\ \E i, j, k \in 1..Len(proc[p].printed) :
                    /\ proc[p].printed[i] = <<"Upgrade failed", "failed to replace binary">>
                    /\ proc[p].printed[j] = <<"Rollback failed", proc[p].restoreErr>>
                    /\ proc[p].printed[k] = <<"Your backup is saved at", BackupPath>>
               /\ backup.exists /\ backup.content = proc[p].pre.content
    /\ (proc[p].top = "runUpgrade"
          /\ proc[p].outcome \in {"rolled back", "manual recovery needed"}) =>
         FailedPastBackup(proc[p])

\* C13 witness: the rename failed and the rollback put the binary back
C13_Witness ==
  /\ FailedPastBackup(proc["p1"]) /\ proc["p1"].pc = "idle"
  /\ proc["p1"].outcome = "rolled back"
  /\ InTrace(proc["p1"], "rollback rename")

\* C14 as claimed: on an official build, whenever the release source holds a
\* newer release with an asset for the platform, runUpgrade asks the release
\* source and reaches the confirmation, whatever the state of the marker
C14_UpgradeAlwaysChecks ==
  \A p \in Procs :
    (proc[p].top = "runUpgrade" /\ InTrace(proc[p], "check") /\ proc[p].ruCheck.offer) =>
      /\ proc[p].ruCheck.requests > 0
      /\ proc[p].outcome # "already latest"

(***************************************************************************)
(* Claims on what CheckForUpdate offers, under SpecCheck                   *)
(***************************************************************************)
\* the call that just returned fetched a release that is newer than the
\* current version and has no asset whose name contains the platform key
NewerWithoutAsset ==
  /\ chk.called /\ chk.out.fetched
  /\ ParseVersion(chk.out.release.TagName).ok
  /\ IsNewerThan(ParseVersion(chk.out.release.TagName), ParseVersion(chk.currentVersion))
  /\ \A i \in 1..Len(chk.out.release.AssetNames) :
       ~Contains(chk.out.release.AssetNames[i],
                 getAssetNameForPlatform(platform[1], platform[2]))

\* C15 as claimed: when the fetched release is newer and has no asset for the
\* platform, CheckForUpdate returns an error and has written no file at all
C15_NoAssetNoWrite ==
  NewerWithoutAsset =>
    /\ chk.out.err # "nil" /\ chk.out.info.nil
    /\ marker = chk.before

\* C15: when the fetched release is newer and has no asset for the platform,
\* CheckForUpdate returns the error that no binary was found and no
\* UpdateInfo, and the only file it may have written is the throttle marker,
\* created or stamped with the time of the call; the binary, the backup path
\* and the temp files are as they were
C15_NoAssetError ==
  NewerWithoutAsset =>
    /\ chk.out.err = "no binary found for platform" /\ chk.out.info.nil
    /\ marker = chk.before \/ marker = [exists |-> TRUE, mtime |-> chk.at]
    /\ live.content = OldBin /\ ~backup.exists /\ ~probe
    /\ \A p \in Procs : ~tmp[p].exists

\* C15 witness: the call found no asset and created the marker
C15_Witness ==
  /\ NewerWithoutAsset
  /\ ~chk.before.exists /\ marker.exists
  /\ chk.currentVersion = V_100

\* the versions the call that just returned compared
CalledCurrent == ParseVersion(chk.currentVersion)
FetchedLatest == ParseVersion(chk.out.release.TagName)

\* C16: CheckForUpdate returns an UpdateInfo only when the tag of the fetched
\* release parses to a version newer than the current one; when the fetched
\* version is equal or older it returns no UpdateInfo and no error; and it
\* never returns an UpdateInfo together with an error
C16_StrictlyNewerGate ==
  chk.called =>
    /\ ~chk.out.info.nil =>
         /\ chk.out.fetched /\ FetchedLatest.ok /\ CalledCurrent.ok
         /\ IsNewerThan(FetchedLatest, CalledCurrent)
         /\ Compare(FetchedLatest, CalledCurrent) = 1
         /\ chk.out.info.LatestVersion = String(FetchedLatest)
    /\ (chk.out.fetched /\ FetchedLatest.ok /\ Compare(FetchedLatest, CalledCurrent) <= 0) =>
         chk.out.info.nil /\ chk.out.err = "nil"
    /\ ~(~chk.out.info.nil /\ chk.out.err # "nil")

\* C16 witness: the release fetched is older than the current version
C16_Witness ==
  /\ chk.called /\ chk.out.fetched
  /\ chk.currentVersion = V_120 /\ chk.out.release.TagName = T_110
  /\ chk.out.info.nil /\ chk.out.err = "nil"

(***************************************************************************)
(* Claims on the functions applied on their own, under SpecFn              *)
(***************************************************************************)
\* the label of a version string: what stands between the first "-" and the
\* next "." or "+", or the end; empty without a "-"
RECURSIVE LabelEnd(_, _)
LabelEnd(s, i) ==
  IF i > Len(s) \/ s[i] \in {".", "+"} THEN i - 1 ELSE LabelEnd(s, i + 1)

LabelOf(s) ==
  LET d == IndexOf(s, "-")
  IN IF d = 0 THEN <<>> ELSE SubSeq(s, d + 1, LabelEnd(s, d + 1))

\* C17: determineChannel returns a config channel alpha, beta or rc as it is,
\* whatever the current version; for the config channel "" or "stable" it
\* returns the first dot-separated part of the current version's pre-release
\* identifier when that is alpha, beta or rc, and "" otherwise
C17_ChannelResolution ==
  applied.fn = "determineChannel" =>
    /\ applied.channel \in {Ch_alpha, Ch_beta, Ch_rc} => applied.result = applied.channel
    /\ applied.channel \in {<<>>, Ch_stable} =>
         applied.result = IF LabelOf(applied.version) \in {Ch_alpha, Ch_beta, Ch_rc}
                          THEN LabelOf(applied.version) ELSE <<>>

\* C17 witness: a beta build without a channel in its configuration
C17_Witness ==
  /\ applied.fn = "determineChannel"
  /\ applied.version = P_100b2 /\ applied.channel = <<>>
  /\ applied.result = Ch_beta

\* the tag without a leading "v" contains "-<channel>"
TagHasChannel(release, channel) ==
  Contains(TrimPrefix(release.TagName, <<"v">>), <<"-">> \o channel)

\* the entries of the list applied to that the claim lets qualify: not a
\* draft, and for a channel a tag that matches it, whatever the pre-release
\* flag; for no channel a pre-release flag that is false
QualifiesAsClaimed ==
  {i \in 1..Len(applied.releases) :
     /\ ~applied.releases[i].Draft
     /\ IF applied.channel = <<>> THEN ~applied.releases[i].Prerelease
        ELSE TagHasChannel(applied.releases[i], applied.channel)}

\* the entries that qualify in GetLatestPreRelease: for a channel the
\* pre-release flag has to be set as well
Qualifies ==
  {i \in 1..Len(applied.releases) :
     /\ ~applied.releases[i].Draft
     /\ IF applied.channel = <<>> THEN ~applied.releases[i].Prerelease
        ELSE /\ applied.releases[i].Prerelease
             /\ TagHasChannel(applied.releases[i], applied.channel)}

\* GetLatestPreRelease returned the first of the entries q, or an error when
\* there is none
ReturnsFirstOf(q) ==
  IF q = {} THEN applied.result.err # "nil"
  ELSE /\ applied.result.err = "nil"
       /\ applied.result.release = applied.releases[CHOOSE i \in q : \A j \in q : i <= j]

\* C18 as claimed: for a channel GetLatestPreRelease returns the first entry
\* that is not a draft and whose tag contains "-<channel>", whatever its
\* pre-release flag; for no channel the first that is neither a draft nor a
\* pre-release; an error when no entry qualifies
C18_FirstTagMatch ==
  (applied.fn = "GetLatestPreRelease" /\ applied.fault = "none") =>
    ReturnsFirstOf(QualifiesAsClaimed)

\* C18: for a channel GetLatestPreRelease returns the first entry that is not
\* a draft, has the pre-release flag set and has a tag containing
\* "-<channel>"; for no channel the first that is neither a draft nor a
\* pre-release; an error when no entry qualifies or the request fails
C18_LatestForChannel ==
  applied.fn = "GetLatestPreRelease" =>
    IF applied.fault = "none" THEN ReturnsFirstOf(Qualifies)
    ELSE applied.result.err # "nil"

\* C18 witness: the entry with an alpha tag and no pre-release flag is passed
\* over for the flagged one after it
C18_Witness ==
  /\ applied.fn = "GetLatestPreRelease" /\ applied.fault = "none"
  /\ applied.channel = Ch_alpha
  /\ applied.releases = <<R_110a2u, R_100a1>>
  /\ applied.result.release = R_100a1

AppliedA == ParseVersion(applied.a)
AppliedB == ParseVersion(applied.b)

\* C20: for versions a and b with the same major.minor.patch, a without a
\* pre-release identifier and b with one, a.IsNewerThan(b) is true and
\* b.IsNewerThan(a) is false; for two versions with the same
\* major.minor.patch and the same pre-release identifier IsNewerThan is false
C20_VersionOrdering ==
  (applied.fn = "IsNewerThan" /\ AppliedA.segments = AppliedB.segments) =>
    /\ (AppliedA.pre = <<>> /\ AppliedB.pre # <<>>) => applied.result
    /\ (AppliedA.pre # <<>> /\ AppliedB.pre = <<>>) => ~applied.result
    /\ AppliedA.pre = AppliedB.pre => ~applied.result

\* C20 witness: the release v1.0.0 against its pre-release 1.0.0-alpha.1
C20_Witness ==
  /\ applied.fn = "IsNewerThan"
  /\ applied.a = V_100 /\ applied.b = V_100a1
  /\ applied.result

\* C21: for every answer whose status is not a success status (2xx),
\* DownloadAsset returns the error of the status with the status code in it
\* and gives the sink nothing; and each call of GetLatestRelease,
\* GetLatestPreRelease and DownloadAsset makes one request, whatever comes of it
C21_SourceFailure ==
  /\ (applied.fn = "DownloadAsset" /\ applied.fault = "none"
        /\ applied.status \notin 200..299) =>
       /\ applied.result.err = "GitHub API returned status"
       /\ AllDigits(applied.result.code)
       /\ ParseInt(applied.result.code) = applied.status
       /\ applied.result.written = <<>>
  /\ applied.fn \in {"DownloadAsset", "GetLatestRelease", "GetLatestPreRelease"} =>
       applied.result.requests = 1

\* C21 witness: the download URL answers 404
C21_Witness ==
  /\ applied.fn = "DownloadAsset" /\ applied.fault = "none"
  /\ applied.status = 404
  /\ applied.result.err = "GitHub API returned status"
  /\ applied.result.written = <<>>

(***************************************************************************)
(* Claims on two upgrades at once, under SpecTwo                           *)
(***************************************************************************)
\* C22 as claimed: when two processes run the upgrade, and the rollback on
\* failure, at once on the same binary, in every state the binary's path
\* holds a complete binary, the original or the whole download of one of the
\* processes, and never a partly written or mixed file
C22_CompleteLiveBinary ==
  live.exists /\ Complete(live.content)

(***************************************************************************)
(* Further claims on the installing part, under Spec                       *)
(***************************************************************************)
\* C23 as claimed: an upgrade started through PerformUpgrade downloads, then
\* verifies, then backs up, then replaces; when the release provides a
\* checksum, no run reaches the backup or the rename without the digest of
\* the downloaded file having been compared with it
C23_VerifiedBeforeBackup ==
  \A p \in Procs :
    proc[p].top \in {"PerformUpgrade", "runUpgrade"} =>
      /\ Precedes(proc[p], "request", {"backup create"})
      /\ Precedes(proc[p], "backup done", {"rename", "rename failed"})
      /\ (proc[p].sumOffered
            /\ (InTrace(proc[p], "backup create") \/ InTrace(proc[p], "rename"))) =>
           /\ InTrace(proc[p], "checksum ok")
           /\ Precedes(proc[p], "checksum ok", {"backup create"})

(***************************************************************************)
(* Further claims on the functions applied on their own, under SpecFn      *)
(***************************************************************************)
\* C24 as claimed: for every config channel string, those outside "",
\* "stable", "alpha", "beta" and "rc" included, and every parsable current
\* version, determineChannel returns "" (stable), "alpha", "beta" or "rc"; a
\* config value outside the set comes to stable
C24_KnownChannelsOnly ==
  applied.fn = "determineChannel" =>
    /\ applied.result \in {<<>>, Ch_alpha, Ch_beta, Ch_rc}
    /\ (applied.channel \notin {<<>>, Ch_stable, Ch_alpha, Ch_beta, Ch_rc}
          /\ LabelOf(applied.version) \notin {Ch_alpha, Ch_beta, Ch_rc}) =>
         applied.result = <<>>

(***************************************************************************)
(* Further claims on the gates of CheckForUpdate, under SpecCheck          *)
(***************************************************************************)
\* C25 as claimed: a call is let through the throttle gate exactly when no
\* marker exists or now - lastCheck >= checkInterval, and is skipped exactly
\* when now - lastCheck < checkInterval; a marker whose age equals
\* checkInterval lets the check through
C25_ThrottleDecision ==
  chk.called =>
    (chk.out.throttled <=>
       (chk.before.exists /\ chk.at - chk.before.mtime < CheckInterval))

\* C26: when ParseVersion rejects the current version string, a call of
\* CheckForUpdate that passes the throttle gate returns no update and no
\* error, issues no request to the release source and leaves the throttle
\* marker as it was
C26_VersionGate ==
  (chk.called /\ ~chk.out.throttled /\ ~ParseVersion(chk.currentVersion).ok) =>
    /\ chk.out.info.nil /\ chk.out.err = "nil"
    /\ chk.out.requests = 0 /\ ~chk.out.fetched
    /\ marker = chk.before
    /\ lastFetch = chk.prevFetch

\* C26 witness: the version 1.a.3 with no marker on disk
C26_Witness ==
  /\ chk.called /\ ~chk.out.throttled
  /\ chk.currentVersion = V_bad
  /\ ~chk.before.exists /\ ~marker.exists

C28_BackupIntegrity ==
  \A p \in Procs :
    /\ (Returned(proc[p]) /\ backup.exists) => Complete(backup.content)
    /\ (Returned(proc[p]) /\ proc[p].err = "failed to create backup"
          /\ proc[p].preBackup.exists) =>
         backup.content = proc[p].preBackup.content

(***************************************************************************)
(* Claims on the platform key, under SpecFn                                *)
(***************************************************************************)
\* C29 as claimed: for linux and darwin on amd64 and arm64, the key built by
\* getAssetNameForPlatform is a substring of the name the release asset for
\* that platform is published under, tasklog_<version>_<os>_<arch>, so that
\* the asset scan of CheckForUpdate finds the asset
C29_PlatformKeyMatches ==
  applied.fn = "getAssetNameForPlatform" =>
    /\ Contains(applied.published, applied.result)
    /\ applied.found # 0

(***************************************************************************)
(* Claims on the channel of a check, under SpecCheck                       *)
(***************************************************************************)
\* the release list of the call that just returned holds a stable release,
\* not a draft, that is newer than the current version
NewerStableHeld ==
  \E i \in 1..Len(chk.releases) :
    /\ ~chk.releases[i].Draft /\ ~chk.releases[i].Prerelease
    /\ ParseVersion(chk.releases[i].TagName).ok
    /\ IsNewerThan(ParseVersion(chk.releases[i].TagName),
                   ParseVersion(chk.currentVersion))

\* C30: when the effective channel is alpha, beta or rc, the release a check
\* used, and so every UpdateInfo it returns, has the pre-release flag set and
\* a tag containing "-<channel>"; a newer stable release is never offered on
\* the channel, also when the list holds one
C30_ChannelStickiness ==
  (chk.called /\ chk.out.channel \in {Ch_alpha, Ch_beta, Ch_rc}) =>
    /\ chk.out.fetched =>
         /\ chk.out.release.Prerelease
         /\ Contains(TrimPrefix(chk.out.release.TagName, <<"v">>),
                     <<"-">> \o chk.out.channel)
    /\ ~chk.out.info.nil =>
         /\ chk.out.fetched
         /\ chk.out.info.IsPreRelease
         /\ chk.out.info.LatestVersion = String(ParseVersion(chk.out.release.TagName))
         /\ \A i \in 1..Len(chk.releases) :
              ~chk.releases[i].Prerelease =>
                chk.out.info.ReleaseURL # GetReleaseURL(chk.releases[i].TagName)

\* C30 witness: an alpha build is offered the alpha release that stands
\* before the newer stable release v1.1.0 in the list
C30_Witness ==
  /\ chk.called /\ ~chk.out.info.nil
  /\ chk.out.channel = Ch_alpha /\ chk.configChannel = <<>>
  /\ chk.releases = <<R_200d, R_110a2, R_110, R_100>>
  /\ NewerStableHeld
  /\ chk.out.info.LatestVersion = String(ParseVersion(T_110a2))

====
